---- MODULE Spec2Model ----
(***************************************************************************)
(* PyForged: the path-addressed registries.                                *)
(*                                                                         *)
(*   NamespaceManager (src/pyforged/namespaces.py), the string-keyed       *)
(*   "FlatRegistry": nested mapping, metadata, version history, TTL,       *)
(*   role permissions and aliases, one instance per process.               *)
(*   Namespace (src/forged/namespacing/core/namespace.py), the tree API.   *)
(*                                                                         *)
(* Strings are sequences of one-character strings, so that split("."),     *)
(* the path regex and fnmatch are computed character by character.         *)
(* Stored values are the strings "v1", "v2", "v3" (opaque scalars) and     *)
(* "{}" (an empty dict passed as a value, as forest.py does).              *)
(***************************************************************************)
EXTENDS Integers, Sequences, FiniteSets, TLC

VARIABLES
    namespaces,   \* _namespaces: the nested dict, as key-path -> value or DICT
    metadata,     \* _metadata: namespace string -> [created_at, updated_at, description]
    aliases,      \* _aliases: alias string -> namespace string
    versions,     \* _versions: namespace string -> sequence of <<timestamp, value>>
    permissions,  \* _permissions: namespace string -> (role -> set of tokens)
    expirations,  \* _expirations: namespace string -> absolute time
    clock,        \* the value time.time() returns now
    last,         \* the last call on the registry: its arguments and its outcome
    setlog,       \* history variable: per namespace, the values of the successful
                  \* set calls since the entry's history was last removed
    entries,      \* history variable: the namespaces that were set and whose key
                  \* is still in the nested dict, each with the value last set
    \* one Namespace (the tree API)
    children,     \* the nodes under root, each named by its segments from the root
    symbol,       \* node -> the Symbol it holds (a node holding None is not in it)
    lazy,         \* the Resolver's lazy-loader entries: the paths that have one
    policy,       \* the Resolver's conflict policy
    tcall,        \* per thread, the Namespace call it is in and how far it got
    tlast,        \* the Namespace call that completed last, and the one before it
    registered,   \* history variable: path -> payload of the completed register
                  \* that no completed unregister followed
    \* threads calling set on the one NamespaceManager
    lock,         \* the holder of _namespace_lock, or NoThread
    lock_depth,   \* how many times the holder has acquired the RLock
    ccall,        \* per thread, the set call it is in and how far it got
    cdone,        \* per thread, the set call it completed last
    \* NamespaceManager.__new__
    class_lock,   \* the holder of the class attribute _lock, or NoThread
    instance,     \* cls._instance: 0 for None, else the number of the object
    created,      \* how many objects __new__ has created and initialised
    ncall,        \* per thread, its position in __new__
    handle,       \* per thread, the instance its last construction returned
    \* Namespace.to_dict / from_dict
    exported,     \* the mapping the last to_dict returned (empty before any)
    imported,     \* the Namespace the last from_dict filled, and its argument
    \* threads calling rollback and get on the one NamespaceManager
    rcall,        \* per thread, the rollback or get it is in and how far it got
    rdone,        \* per thread, the rollback or get it completed last
    \* events.observer.Subject
    observers,         \* _observers: the list heapq keeps, of (-priority, observer)
    active_observers,  \* _active_observers
    olast,             \* the last call on the Subject and, for notify, its updates
    \* engine.services.ServiceRegistry
    services,     \* _services: name -> instance
    factories,    \* the names that have an entry in _factories
    singletons,   \* _singletons: name -> instance, or None before the factory ran
    svc_aliases,  \* _aliases: alias -> name
    svc_lock,     \* the holder of _lock, or NoThread
    scall,        \* per thread, the registry call it is in and how far it got
    sdone         \* per thread, the registry call it completed last

flatVars == <<namespaces, metadata, aliases, versions, permissions, expirations,
              clock, last, setlog, entries>>
treeVars == <<children, symbol, lazy, policy, tcall, tlast, registered>>
concVars == <<lock, lock_depth, ccall, cdone>>
newVars == <<class_lock, instance, created, ncall, handle>>
dictVars == <<exported, imported>>
reVars == <<rcall, rdone>>
obsVars == <<observers, active_observers, olast>>
svcVars == <<services, factories, singletons, svc_aliases, svc_lock, scall, sdone>>
extVars == <<obsVars, svcVars>>

(***************************************************************************)
(* Bounds of the model.                                                    *)
(***************************************************************************)
MaxTime == 1
MaxVersions == 3

(***************************************************************************)
(* Strings.                                                                *)
(***************************************************************************)
WordChars == {"a", "b", "c", "d", "x", "k", "A", "_"}

sEmpty == << >>
sA     == <<"a">>
sB     == <<"b">>
sK     == <<"k">>
sX     == <<"x">>
sAB    == <<"a", ".", "b">>
sAX    == <<"a", ".", "x">>
sABC   == <<"a", ".", "b", ".", "c">>
sABD   == <<"a", ".", "b", ".", "d">>
sBadDot == <<"a", ".">>
sBadChr == <<"a", "-">>

\* str.split("."): "" splits into [""], "a." into ["a", ""].
RECURSIVE SplitAcc(_, _, _, _)
SplitAcc(s, i, cur, acc) ==
    IF i > Len(s) THEN Append(acc, cur)
    ELSE IF s[i] = "." THEN SplitAcc(s, i + 1, << >>, Append(acc, cur))
    ELSE SplitAcc(s, i + 1, Append(cur, s[i]), acc)

Split(s) == SplitAcc(s, 1, << >>, << >>)

\* ".".join(keys)
RECURSIVE Join(_)
Join(keys) ==
    IF Len(keys) = 0 THEN << >>
    ELSE IF Len(keys) = 1 THEN keys[1]
    ELSE keys[1] \o <<".">> \o Join(Tail(keys))

\* re.match(r'^[a-zA-Z0-9_]+(\.[a-zA-Z0-9_]+)*$', namespace)
validate_namespace(namespace) ==
    \A i \in 1..Len(Split(namespace)) :
        LET seg == Split(namespace)[i]
        IN  /\ Len(seg) > 0
            /\ \A j \in 1..Len(seg) : seg[j] \in WordChars

\* fnmatch.fnmatch(key, pattern) on a case-sensitive platform: "*" matches any
\* run of characters, "?" any one character, everything else itself.
RECURSIVE FnAt(_, _, _, _)
FnAt(key, i, pattern, j) ==
    IF j > Len(pattern) THEN i > Len(key)
    ELSE IF pattern[j] = "*"
         THEN FnAt(key, i, pattern, j + 1)
              \/ (i <= Len(key) /\ FnAt(key, i + 1, pattern, j))
    ELSE IF pattern[j] = "?"
         THEN i <= Len(key) /\ FnAt(key, i + 1, pattern, j + 1)
    ELSE i <= Len(key) /\ key[i] = pattern[j] /\ FnAt(key, i + 1, pattern, j + 1)

match_pattern(key, pattern) == FnAt(key, 1, pattern, 1)

(***************************************************************************)
(* Python dicts as functions with a finite domain.                         *)
(***************************************************************************)
EmptyDict == << >>
Put(d, k, v) == [x \in (DOMAIN d) \cup {k} |-> IF x = k THEN v ELSE d[x]]
Pop(d, k) == [x \in (DOMAIN d) \ {k} |-> d[x]]
GetOr(d, k, dflt) == IF k \in DOMAIN d THEN d[k] ELSE dflt

(***************************************************************************)
(* The nested dict _namespaces.  A key-path (a sequence of keys from the   *)
(* top-level dict down) is in the domain when that key exists; it maps to  *)
(* DICT when the value under the key is a dict, else to the stored value.  *)
(***************************************************************************)
DICT == "{}"
NONE == "None"

IsPrefix(p, q) == Len(p) <= Len(q) /\ SubSeq(q, 1, Len(p)) = p
IsProperPrefix(p, q) == Len(p) < Len(q) /\ SubSeq(q, 1, Len(p)) = p

\* The key-paths of keys[:-1] that already hold something that is no dict:
\* ref.setdefault(key, {}) hands that value back and the next use of ref raises.
BlockedAt(ns, keys) ==
    {i \in 1..(Len(keys) - 1) :
        SubSeq(keys, 1, i) \in DOMAIN ns /\ ns[SubSeq(keys, 1, i)] # DICT}

\* ref = ref.setdefault(key, {}) along keys[:-1], then ref[keys[-1]] = value.
\* Assigning the leaf key replaces whatever dict was under it.
Assign(ns, keys, value) ==
    LET kept == {q \in DOMAIN ns : ~IsProperPrefix(keys, q)}
        made == {SubSeq(keys, 1, i) : i \in 1..Len(keys)}
    IN  [q \in kept \cup made |->
            IF q = keys THEN value
            ELSE IF q \in DOMAIN ns THEN ns[q] ELSE DICT]

\* ref.pop(keys[-1], None): the key and everything under it.
Remove(ns, keys) == [q \in {r \in DOMAIN ns : ~IsPrefix(keys, r)} |-> ns[q]]

ChildKeys(ns, keys) ==
    {q[Len(keys) + 1] : q \in {r \in DOMAIN ns :
                                 Len(r) = Len(keys) + 1 /\ IsPrefix(keys, r)}}

(***************************************************************************)
(* NamespaceManager's operations, as functions from the instance's tables  *)
(* R to the tables after the call, the way the call ended (out) and what   *)
(* it returned (ret).  An operation that calls another one (check_         *)
(* permission from set/get/delete, delete from get, set from rollback)     *)
(* applies that operation's function, arguments as the code passes them.   *)
(***************************************************************************)
NoTtl == 0 - 1          \* ttl=None
Roles == {"admin", "svc"}
Tokens == {"read", "write"}

\* The threads of the process; NoThread holds a lock nobody holds.
Threads == {"t1", "t2"}
NoThread == "none"

Tables == [namespaces |-> namespaces, metadata |-> metadata, aliases |-> aliases,
           versions |-> versions, permissions |-> permissions,
           expirations |-> expirations]

Result(R, out, ret) == [r |-> R, out |-> out, ret |-> ret]

resolve_alias(R, namespace) == GetOr(R.aliases, namespace, namespace)

\* set_alias(alias, namespace)
set_alias(R, alias, namespace) ==
    IF ~validate_namespace(alias) \/ ~validate_namespace(namespace)
    THEN Result(R, "ValueError", NONE)
    ELSE Result([R EXCEPT !.aliases = Put(@, alias, namespace)], "ok", NONE)

\* delete_alias(alias)
delete_alias(R, alias) == Result([R EXCEPT !.aliases = Pop(@, alias)], "ok", NONE)

\* set_permission(namespace, role, permission): the namespace is used as given.
set_permission(R, namespace, role, permission) ==
    IF ~validate_namespace(namespace)
    THEN Result(R, "ValueError", NONE)
    ELSE Result([R EXCEPT !.permissions =
                    Put(@, namespace,
                        Put(GetOr(@, namespace, EmptyDict), role,
                            GetOr(GetOr(@, namespace, EmptyDict), role, {})
                                \cup {permission}))],
                "ok", NONE)

\* check_permission(namespace, role, permission): resolves the alias itself.
check_permission(R, namespace, role, permission) ==
    permission \in GetOr(GetOr(R.permissions, resolve_alias(R, namespace), EmptyDict),
                         role, {})

\* self._versions[namespace].append((time.time(), value))
append_version_first(history, t, value) == <<(<<t, value>>)>> \o history
append_version(history, t, value) == Append(history, <<t, value>>)

\* The block of set under _namespace_lock (lines 158-177), on the resolved
\* namespace.  T is the four readings of time.time(), in the order of the code.
set_locked(R, namespace, value, description, ttl, T) ==
    LET keys == Split(namespace)
        blocked == BlockedAt(R.namespaces, keys)
    IN  IF blocked # {}
        \* the value is no dict: the item assignment raises TypeError when it is
        \* under keys[-2], the next setdefault raises AttributeError otherwise
        THEN Result(R, IF (Len(keys) - 1) \in blocked THEN "TypeError"
                       ELSE "AttributeError", NONE)
        ELSE Result(
            [R EXCEPT
                !.namespaces = Assign(@, keys, value),
                !.metadata = Put(@, namespace,
                                 [created_at |-> T[1], updated_at |-> T[2],
                                  description |-> description]),
                !.versions = Put(@, namespace,
                                 append_version(GetOr(@, namespace, << >>), T[3], value)),
                !.expirations = IF ttl # NoTtl THEN Put(@, namespace, T[4] + ttl)
                                ELSE @],
            "ok", NONE)

\* set(namespace, value, description, role, ttl)
set(R, namespace, value, description, role, ttl, T) ==
    LET resolved == resolve_alias(R, namespace)
    IN  IF ~validate_namespace(resolved) THEN Result(R, "ValueError", NONE)
        ELSE IF ~check_permission(R, resolved, role, "write")
             THEN Result(R, "PermissionError", NONE)
        ELSE set_locked(R, resolved, value, description, ttl, T)

\* The block of delete under _namespace_lock (lines 260-270).
delete_locked(R, namespace) ==
    LET keys == Split(namespace)
        ns == R.namespaces
        n == Len(keys)
        \* the keys of keys[:-1] the walk finds missing
        missing == {i \in 1..(n - 1) : SubSeq(keys, 1, i) \notin DOMAIN ns}
        first == IF missing = {} THEN n
                 ELSE CHOOSE i \in missing : \A j \in missing : i <= j
        \* what ref is bound to when keys[first] is looked at
        refIsDict == first = 1 \/ ns[SubSeq(keys, 1, first - 1)] = DICT
    IN  IF ~refIsDict
        THEN Result(R, IF first = n THEN "AttributeError" ELSE "TypeError", NONE)
        ELSE IF first < n THEN Result(R, "ok", NONE)     \* the early return, line 265
        ELSE Result([R EXCEPT !.namespaces = Remove(@, keys),
                              !.metadata = Pop(@, namespace),
                              !.versions = Pop(@, namespace),
                              !.expirations = Pop(@, namespace)],
                    "ok", NONE)

\* delete(namespace, role)
delete(R, namespace, role) ==
    LET resolved == resolve_alias(R, namespace)
    IN  IF ~check_permission(R, resolved, role, "write")
        THEN Result(R, "PermissionError", NONE)
        ELSE delete_locked(R, resolved)

\* The walk of get (lines 200-206).
get_walk(R, namespace, default) ==
    LET keys == Split(namespace)
        ns == R.namespaces
        n == Len(keys)
        missing == {i \in 1..n : SubSeq(keys, 1, i) \notin DOMAIN ns}
        first == IF missing = {} THEN n + 1
                 ELSE CHOOSE i \in missing : \A j \in missing : i <= j
        refIsDict == first = 1 \/ ns[SubSeq(keys, 1, first - 1)] = DICT
    IN  IF first = n + 1 THEN Result(R, "ok", ns[keys])
        ELSE IF ~refIsDict THEN Result(R, "TypeError", NONE)
        ELSE Result(R, "ok", default)

\* get(namespace, default, role); now is the reading of time.time() at line 196.
get(R, namespace, default, role, now) ==
    LET resolved == resolve_alias(R, namespace)
    IN  IF ~check_permission(R, resolved, role, "read")
        THEN Result(R, "PermissionError", NONE)
        ELSE IF resolved \in DOMAIN R.expirations /\ now > R.expirations[resolved]
             THEN LET d == delete(R, resolved, role)
                  IN  IF d.out # "ok" THEN d ELSE Result(d.r, "ok", default)
        ELSE get_walk(R, resolved, default)

\* get_metadata(namespace)
get_metadata(R, namespace) ==
    Result(R, "ok", GetOr(R.metadata, resolve_alias(R, namespace), EmptyDict))

\* get_versions(namespace)
get_versions(R, namespace) ==
    Result(R, "ok", GetOr(R.versions, resolve_alias(R, namespace), << >>))

\* rollback(namespace, timestamp): set is called with its default role and no ttl.
rollback(R, namespace, timestamp, T) ==
    LET resolved == resolve_alias(R, namespace)
        vs == GetOr(R.versions, resolved, << >>)
        ok == {i \in 1..Len(vs) : vs[i][1] <= timestamp}
    IN  IF ok = {} THEN Result(R, "ok", NONE)
        ELSE LET i == CHOOSE i \in ok : \A j \in ok : j <= i
             IN  set(R, resolved, vs[i][2], sEmpty, "admin", NoTtl, T)

\* list_keys(namespace)
list_keys(R, namespace) ==
    LET resolved == resolve_alias(R, namespace)
        keys == IF resolved = sEmpty THEN << >> ELSE Split(resolved)
        ns == R.namespaces
        n == Len(keys)
        missing == {i \in 1..n : SubSeq(keys, 1, i) \notin DOMAIN ns}
        first == IF missing = {} THEN n + 1
                 ELSE CHOOSE i \in missing : \A j \in missing : i <= j
        refIsDict == first = 1 \/ ns[SubSeq(keys, 1, first - 1)] = DICT
    IN  IF ~refIsDict THEN Result(R, IF first = n + 1 THEN "AttributeError"
                                     ELSE "TypeError", {})
        ELSE IF first <= n THEN Result(R, "ok", {})
        ELSE Result(R, "ok", ChildKeys(ns, keys))

\* new_path = f"{path}.{key}" if path else key
new_path_key_only(path, key) == key
new_path_of(path, key) == IF path # sEmpty THEN path \o <<".">> \o key ELSE key

\* match_keys(namespace_dict, path, collected), the helper of search: the dict
\* is the one at key-path at, path is the dotted string built so far.
RECURSIVE match_keys(_, _, _)
match_keys(ns, at, path) ==
    UNION { LET new_path == new_path_of(path, key)
                value == ns[Append(at, key)]
            IN  IF value = DICT THEN match_keys(ns, Append(at, key), new_path)
                ELSE {<<new_path, value>>}
          : key \in ChildKeys(ns, at) }

\* search(pattern)
search(R, pattern) ==
    Result(R, "ok", {kv \in match_keys(R.namespaces, << >>, sEmpty) :
                        match_pattern(kv[1], pattern)})

(***************************************************************************)
(* The sequential callers of one NamespaceManager: every action is one     *)
(* whole public call, made while no other call is in progress.             *)
(***************************************************************************)
Call(op, namespace, role, val, res) ==
    [op |-> op, ns |-> namespace, role |-> role, val |-> val,
     out |-> res.out, ret |-> res.ret]

NoCall == [op |-> "none", ns |-> sEmpty, role |-> "-", val |-> NONE,
           out |-> "ok", ret |-> NONE]

\* A call that is recorded by its name only.
Admin(op) == [NoCall EXCEPT !.op = op]

\* The history variable follows the calls: a successful set (rollback's too)
\* adds its value under the namespace it wrote, and a namespace whose history
\* the call removed starts again from nothing.
LogAfter(R2, written, value, appended) ==
    LET kept == {n \in DOMAIN setlog :
                    ~(n \in DOMAIN versions /\ n \notin DOMAIN R2.versions)}
        base == [n \in kept |-> setlog[n]]
    IN  IF appended THEN Put(base, written, Append(GetOr(base, written, << >>), value))
        ELSE base

\* A successful set records the entry; an entry goes when its key has gone.
EntriesAfter(R2, written, value, appended) ==
    LET named == (DOMAIN entries) \cup (IF appended THEN {written} ELSE {})
    IN  [n \in {m \in named : Split(m) \in DOMAIN R2.namespaces} |->
            IF appended /\ n = written THEN value ELSE entries[n]]

Install(res, call, written, value, appended) ==
    /\ namespaces' = res.r.namespaces
    /\ metadata' = res.r.metadata
    /\ aliases' = res.r.aliases
    /\ versions' = res.r.versions
    /\ permissions' = res.r.permissions
    /\ expirations' = res.r.expirations
    /\ setlog' = LogAfter(res.r, written, value, appended)
    /\ entries' = EntriesAfter(res.r, written, value, appended)
    /\ last' = call
    /\ lock = NoThread
    /\ UNCHANGED <<treeVars, concVars, newVars, dictVars, reVars, extVars>>

\* The readings of time.time() one call makes: the clock may advance once
\* during the call, before reading j (j = 5: not during this call).
Readings(j) == [i \in 1..4 |-> IF i >= j THEN clock + 1 ELSE clock]

Tick(limit) ==
    /\ clock < limit
    /\ clock' = clock + 1
    /\ last' = Admin("tick")
    /\ UNCHANGED <<namespaces, metadata, aliases, versions, permissions,
                   expirations, setlog, entries>>
    /\ UNCHANGED <<treeVars, concVars, newVars, dictVars, reVars, extVars>>

SetPermission(nsMenu, roleMenu, tokenMenu) ==
    \E namespace \in nsMenu, role \in roleMenu, permission \in tokenMenu :
        \E res \in {set_permission(Tables, namespace, role, permission)} :
            /\ Install(res, Admin("set_permission"),
                       sEmpty, NONE, FALSE)
            /\ UNCHANGED clock

SetAlias(aliasMenu) ==
    \E pair \in aliasMenu :
        \E res \in {set_alias(Tables, pair[1], pair[2])} :
            /\ Install(res, [Admin("set_alias") EXCEPT !.out = res.out],
                       sEmpty, NONE, FALSE)
            /\ UNCHANGED clock

DeleteAlias(nsMenu) ==
    \E alias \in nsMenu :
        \E res \in {delete_alias(Tables, alias)} :
            /\ Install(res, Admin("delete_alias"),
                       sEmpty, NONE, FALSE)
            /\ UNCHANGED clock

Set(nsMenu, valMenu, roleMenu, ttlMenu, tickMenu, limit, depth) ==
    \E namespace \in nsMenu, value \in valMenu, role \in roleMenu,
       ttl \in ttlMenu, j \in tickMenu :
        LET T == Readings(j)
            written == resolve_alias(Tables, namespace)
        IN  \E res \in {set(Tables, namespace, value, <<"d">>, role, ttl, T)} :
            /\ T[4] <= limit
            /\ Len(GetOr(versions, written, << >>)) < depth
            /\ Install(res, Call("set", namespace, role, value, res),
                       written, value, res.out = "ok")
            /\ clock' = T[4]

Get(nsMenu, roleMenu) ==
    \E namespace \in nsMenu, role \in roleMenu :
        \E res \in {get(Tables, namespace, "default", role, clock)} :
            /\ Install(res, Call("get", namespace, role, NONE, res),
                       sEmpty, NONE, FALSE)
            /\ UNCHANGED clock

Delete(nsMenu, roleMenu) ==
    \E namespace \in nsMenu, role \in roleMenu :
        \E res \in {delete(Tables, namespace, role)} :
            /\ Install(res, Call("delete", namespace, role, NONE, res),
                       sEmpty, NONE, FALSE)
            /\ UNCHANGED clock

Rollback(nsMenu, tickMenu, limit, depth) ==
    \E namespace \in nsMenu, timestamp \in 0..limit, j \in tickMenu :
        LET T == Readings(j)
            resolved == resolve_alias(Tables, namespace)
            \* set resolves the namespace once more
            written == resolve_alias(Tables, resolved)
            called == \E i \in 1..Len(GetOr(versions, resolved, << >>)) :
                          versions[resolved][i][1] <= timestamp
        IN  \E res \in {rollback(Tables, namespace, timestamp, T)} :
            /\ IF called THEN T[4] <= limit ELSE j = 5
            /\ Len(GetOr(versions, written, << >>)) < depth
            /\ Install(res, Call("rollback", namespace, "admin", timestamp, res),
                       written,
                       IF called /\ res.out = "ok"
                       THEN res.r.versions[written][Len(res.r.versions[written])][2]
                       ELSE NONE,
                       called /\ res.out = "ok")
            /\ clock' = IF called THEN T[4] ELSE clock

GetVersions(nsMenu) ==
    \E namespace \in nsMenu :
        \E res \in {get_versions(Tables, namespace)} :
            /\ Install(res, Call("get_versions", namespace, "-", NONE, res),
                       sEmpty, NONE, FALSE)
            /\ UNCHANGED clock

ListKeys(nsMenu) ==
    \E namespace \in nsMenu :
        \E res \in {list_keys(Tables, namespace)} :
            /\ Install(res, Call("list_keys", namespace, "-", NONE, res),
                       sEmpty, NONE, FALSE)
            /\ UNCHANGED clock

Search(patMenu) ==
    \E pattern \in patMenu :
        \E res \in {search(Tables, pattern)} :
            /\ Install(res, Call("search", pattern, "-", NONE, res),
                       sEmpty, NONE, FALSE)
            /\ UNCHANGED clock

\* The tables after construction (__new__, lines 36-41).
FlatInit ==
    /\ namespaces = EmptyDict
    /\ metadata = EmptyDict
    /\ aliases = EmptyDict
    /\ versions = EmptyDict
    /\ permissions = EmptyDict
    /\ expirations = EmptyDict
    /\ clock = 0
    /\ last = NoCall
    /\ setlog = EmptyDict
    /\ entries = EmptyDict

(***************************************************************************)
(* Namespace (src/forged/namespacing/core/namespace.py).  The classes it   *)
(* imports (NamespaceNode, Symbol, Resolver) and split_path are not among  *)
(* the sources; they are modelled from the specification's section 4.      *)
(* A node is named by the sequence of segments that leads to it from the   *)
(* root; children is the set of nodes that exist, symbol the Symbols held. *)
(***************************************************************************)
Root == << >>

\* utils.split_path: the dotted path's segments; the empty path has none
\* and is rejected by the callers' first step.
split_path(path) == IF path = sEmpty THEN << >> ELSE Split(path)

\* NamespaceNode.has_child / get_child / add_child
has_child(nodes, node, part) == Append(node, part) \in nodes
get_child(nodes, node, part) == Append(node, part)
add_child(nodes, node, part) == nodes \cup {Append(node, part)}

\* Symbol(value=..., name=...); an argument of register is either a raw
\* value or a Symbol, told apart by isinstance (line 29).
Symbol(value, name) == [value |-> value, name |-> name]
RawArg(value) == [is_symbol |-> FALSE, value |-> value, name |-> NONE]
SymbolArg(value, name) == [is_symbol |-> TRUE, value |-> value, name |-> name]
NoArg == RawArg(NONE)

\* Resolver: the conflict policy, the lazy-loader entries.
Policies == {"overwrite", "raise"}
has_lazy(entries_, path) == path \in entries_
LoadedValue == "lz"
load_lazy(entries_, path) == Symbol(LoadedValue, NONE)

\* resolve, line 43: the node holds no Symbol and its path has a lazy loader
lazy_pending_uncached(symbols, entries_, node, path) == has_lazy(entries_, path)
lazy_pending(symbols, entries_, node, path) ==
    node \notin DOMAIN symbols /\ has_lazy(entries_, path)

\* Resolver.load_lazy when the producer raises: the entry stays pending.
load_lazy_fails(entries_, path) == entries_

\* resolve, line 44, when load_lazy raises: the assignment is not reached
failed_load_poisoned(symbols, node) == Put(symbols, node, Symbol(NONE, NONE))
failed_load(symbols, node) == symbols

\* register, line 25: the terminal node exists and holds a Symbol
conflict_any_child(nodes, symbols, node, final) == has_child(nodes, node, final)
conflict(nodes, symbols, node, final) ==
    /\ has_child(nodes, node, final)
    /\ get_child(nodes, node, final) \in DOMAIN symbols

\* register, line 29: a Symbol is stored as it is, a raw value is wrapped
wrap_placeholder(value) == Symbol(NONE, value.name)
wrap(value) ==
    IF value.is_symbol THEN Symbol(value.value, value.name)
    ELSE Symbol(value.value, NONE)

\* resolve, line 46: the Symbol's value, or None for a node holding none
resolve_return(symbols, node) ==
    IF node \in DOMAIN symbols THEN symbols[node].value ELSE NONE

\* unregister, lines 63-64: the target's Symbol is set to None
clear_subtree(symbols, target) ==
    [n \in {m \in DOMAIN symbols : ~IsPrefix(target, m)} |-> symbols[n]]
clear_symbol(symbols, target) == Pop(symbols, target)

Idle == [pc |-> "idle", op |-> "none", path |-> sEmpty, arg |-> NoArg,
         parts |-> << >>, i |-> 0, handled |-> 0, occupied |-> FALSE,
         loaded |-> FALSE]

NoTreeCall == [op |-> "none", path |-> sEmpty, arg |-> NoArg, out |-> "ok",
               ret |-> NONE, handled |-> 0, occupied |-> FALSE, follows |-> sEmpty]

\* The path the call that completed last has unregistered, for the record of
\* the call that follows it; the empty path when it was no such call.
Unregistered ==
    IF tlast.op = "unregister" /\ tlast.out = "ok" THEN tlast.path ELSE sEmpty

\* The call c of thread t ends with outcome out and return value ret.
Completes(t, c, out, ret) ==
    /\ tcall' = [tcall EXCEPT ![t] = Idle]
    /\ tlast' = [op |-> c.op, path |-> c.path, arg |-> c.arg,
                 out |-> out, ret |-> ret, handled |-> c.handled,
                 occupied |-> c.occupied,
                 follows |-> Unregistered]

Moves(t, c) == tcall' = [tcall EXCEPT ![t] = c] /\ UNCHANGED tlast

NoOtherCall(t) == \A u \in Threads \ {t} : tcall[u].pc = "idle"

TreeFrame == UNCHANGED <<flatVars, concVars, newVars, dictVars, reVars, extVars>>

\* A call begins (lines 16-17, 34-35, 56-57): the path is split and the
\* walk starts at the root.  An empty path ends the call at once.
Begin(t, op, path, arg, pc) ==
    /\ tcall[t].pc = "idle"
    /\ IF split_path(path) = << >>
       THEN Completes(t, [Idle EXCEPT !.op = op, !.path = path, !.arg = arg],
                      "PathFormatInvalid", NONE)
       ELSE Moves(t, [Idle EXCEPT !.pc = pc, !.op = op, !.path = path, !.arg = arg,
                         !.parts = split_path(path),
                         !.occupied = split_path(path) \in DOMAIN symbol])
    /\ UNCHANGED <<children, symbol, lazy, policy, registered>>
    /\ TreeFrame

\* register -----------------------------------------------------------------
RegisterBegin(threadMenu, pathMenu, argMenu, alone) ==
    \E t \in threadMenu, path \in pathMenu, value \in argMenu :
        /\ alone => NoOtherCall(t)
        /\ Begin(t, "register", path, value, "reg_walk")

\* lines 19-20: one intermediate segment, created when absent
RegisterWalk ==
    \E t \in Threads :
        LET c == tcall[t]
            current == SubSeq(c.parts, 1, c.i)
        IN  /\ c.pc = "reg_walk"
            /\ c.i < Len(c.parts) - 1
            /\ children' = add_child(children, current, c.parts[c.i + 1])
            /\ Moves(t, [c EXCEPT !.i = c.i + 1])
            /\ UNCHANGED <<symbol, lazy, policy, registered>>
            /\ TreeFrame

\* lines 22-29 with the Symbol assigned before the handler is consulted
RegisterCheckAfterWrite ==
    \E t \in Threads :
        LET c == tcall[t]
            current == SubSeq(c.parts, 1, c.i)
            final == c.parts[Len(c.parts)]
            node == get_child(children, current, final)
        IN  /\ c.pc = "reg_walk"
            /\ c.i = Len(c.parts) - 1
            /\ IF conflict(children, symbol, current, final)
               THEN IF policy = "raise"
                    THEN /\ Completes(t, [c EXCEPT !.handled = c.handled + 1],
                                      "ConflictDetected", NONE)
                         /\ symbol' = Put(symbol, node, wrap(c.arg))
                    ELSE /\ Moves(t, [c EXCEPT !.pc = "reg_write",
                                               !.handled = c.handled + 1])
                         /\ UNCHANGED symbol
               ELSE /\ Moves(t, [c EXCEPT !.pc = "reg_write"])
                    /\ UNCHANGED symbol
            /\ UNCHANGED <<children, lazy, policy, registered>>
            /\ TreeFrame

\* lines 22-26: the conflict check at the terminal segment; the handler
\* either lets the registration go on or raises
RegisterCheck ==
    \E t \in Threads :
        LET c == tcall[t]
            current == SubSeq(c.parts, 1, c.i)
            final == c.parts[Len(c.parts)]
        IN  /\ c.pc = "reg_walk"
            /\ c.i = Len(c.parts) - 1
            /\ IF conflict(children, symbol, current, final)
               THEN IF policy = "raise"
                    THEN Completes(t, [c EXCEPT !.handled = c.handled + 1],
                                   "ConflictDetected", NONE)
                    ELSE Moves(t, [c EXCEPT !.pc = "reg_write",
                                            !.handled = c.handled + 1])
               ELSE Moves(t, [c EXCEPT !.pc = "reg_write"])
            /\ UNCHANGED <<children, symbol, lazy, policy, registered>>
            /\ TreeFrame

\* lines 28-29: the terminal node is created when absent and takes the Symbol
RegisterWrite ==
    \E t \in Threads :
        LET c == tcall[t]
            current == SubSeq(c.parts, 1, c.i)
            final == c.parts[Len(c.parts)]
            node == get_child(children, current, final)
        IN  /\ c.pc = "reg_write"
            /\ children' = add_child(children, current, final)
            /\ symbol' = Put(symbol, node, wrap(c.arg))
            /\ registered' = Put(registered, c.path, c.arg.value)
            /\ Completes(t, c, "ok", NONE)
            /\ UNCHANGED <<lazy, policy>>
            /\ TreeFrame

\* resolve ------------------------------------------------------------------
ResolveBegin(threadMenu, pathMenu, alone) ==
    \E t \in threadMenu, path \in pathMenu :
        /\ alone => NoOtherCall(t)
        /\ Begin(t, "resolve", path, NoArg, "res_walk")

\* lines 37-40: one segment; a missing node ends the call with KeyError
ResolveWalkCreating ==
    \E t \in Threads :
        LET c == tcall[t]
            current == SubSeq(c.parts, 1, c.i)
            part == c.parts[c.i + 1]
        IN  /\ c.pc = "res_walk"
            /\ c.i < Len(c.parts)
            /\ children' = add_child(children, current, part)
            /\ Moves(t, [c EXCEPT !.i = c.i + 1])
            /\ UNCHANGED <<symbol, lazy, policy, registered>>
            /\ TreeFrame

ResolveWalk ==
    \E t \in Threads :
        LET c == tcall[t]
            current == SubSeq(c.parts, 1, c.i)
            part == c.parts[c.i + 1]
        IN  /\ c.pc = "res_walk"
            /\ c.i < Len(c.parts)
            /\ IF has_child(children, current, part)
               THEN Moves(t, [c EXCEPT !.i = c.i + 1])
               ELSE Completes(t, c, "KeyError", NONE)
            /\ UNCHANGED <<children, symbol, lazy, policy, registered>>
            /\ TreeFrame

\* line 43 and the call of line 44: a node holding no Symbol whose path
\* has a lazy loader gets the loader run
ResolveCheck ==
    \E t \in Threads :
        LET c == tcall[t]
            current == SubSeq(c.parts, 1, c.i)
        IN  /\ c.pc = "res_walk"
            /\ c.i = Len(c.parts)
            /\ IF lazy_pending(symbol, lazy, current, c.path)
               THEN Moves(t, [c EXCEPT !.pc = "res_store", !.loaded = TRUE])
               ELSE Moves(t, [c EXCEPT !.pc = "res_return"])
            /\ UNCHANGED <<children, symbol, lazy, policy, registered>>
            /\ TreeFrame

\* the assignment of line 44
ResolveStore ==
    \E t \in Threads :
        LET c == tcall[t]
            current == SubSeq(c.parts, 1, c.i)
        IN  /\ c.pc = "res_store"
            /\ symbol' = Put(symbol, current, load_lazy(lazy, c.path))
            /\ Moves(t, [c EXCEPT !.pc = "res_return"])
            /\ UNCHANGED <<children, lazy, policy, registered>>
            /\ TreeFrame

\* line 44 when the producer raises: nothing in resolve catches the error,
\* which ends the call
ResolveLoadFails ==
    \E t \in Threads :
        LET c == tcall[t]
            current == SubSeq(c.parts, 1, c.i)
        IN  /\ c.pc = "res_store"
            /\ symbol' = failed_load(symbol, current)
            /\ lazy' = load_lazy_fails(lazy, c.path)
            /\ Completes(t, c, "LazyLoadFailed", NONE)
            /\ UNCHANGED <<children, policy, registered>>
            /\ TreeFrame

\* line 46
ResolveReturn ==
    \E t \in Threads :
        LET c == tcall[t]
            current == SubSeq(c.parts, 1, c.i)
        IN  /\ c.pc = "res_return"
            /\ Completes(t, c, "ok", resolve_return(symbol, current))
            /\ UNCHANGED <<children, symbol, lazy, policy, registered>>
            /\ TreeFrame

\* unregister ---------------------------------------------------------------
UnregisterBegin(threadMenu, pathMenu, alone) ==
    \E t \in threadMenu, path \in pathMenu :
        /\ alone => NoOtherCall(t)
        /\ Begin(t, "unregister", path, NoArg, "unreg_walk")

\* lines 58-61: one segment up to the terminal's parent
UnregisterWalk ==
    \E t \in Threads :
        LET c == tcall[t]
            current == SubSeq(c.parts, 1, c.i)
            part == c.parts[c.i + 1]
        IN  /\ c.pc = "unreg_walk"
            /\ c.i < Len(c.parts) - 1
            /\ IF has_child(children, current, part)
               THEN Moves(t, [c EXCEPT !.i = c.i + 1])
               ELSE Completes(t, c, "KeyError", NONE)
            /\ UNCHANGED <<children, symbol, lazy, policy, registered>>
            /\ TreeFrame

\* lines 62-64 with the terminal node detached from its parent instead
UnregisterClearDetaching ==
    \E t \in Threads :
        LET c == tcall[t]
            current == SubSeq(c.parts, 1, c.i)
            final == c.parts[Len(c.parts)]
            target == get_child(children, current, final)
        IN  /\ c.pc = "unreg_walk"
            /\ c.i = Len(c.parts) - 1
            /\ children' = {n \in children : ~IsPrefix(target, n)}
            /\ symbol' = clear_subtree(symbol, target)
            /\ registered' = Pop(registered, c.path)
            /\ Completes(t, c, "ok", NONE)
            /\ UNCHANGED <<lazy, policy>>
            /\ TreeFrame

\* lines 62-64: the terminal node, when there is one, loses its Symbol
UnregisterClear ==
    \E t \in Threads :
        LET c == tcall[t]
            current == SubSeq(c.parts, 1, c.i)
            final == c.parts[Len(c.parts)]
            target == get_child(children, current, final)
        IN  /\ c.pc = "unreg_walk"
            /\ c.i = Len(c.parts) - 1
            /\ symbol' = IF has_child(children, current, final)
                         THEN clear_symbol(symbol, target)
                         ELSE symbol
            /\ registered' = Pop(registered, c.path)
            /\ Completes(t, c, "ok", NONE)
            /\ UNCHANGED <<children, lazy, policy>>
            /\ TreeFrame

\* Resolver: a deferred producer is recorded for a path; the policy is set.
RegisterLazy(pathMenu) ==
    \E path \in pathMenu :
        /\ \A t \in Threads : tcall[t].pc = "idle"
        /\ path \notin lazy
        /\ lazy' = lazy \cup {path}
        /\ tlast' = [NoTreeCall EXCEPT !.op = "register_lazy", !.path = path,
                        !.follows = Unregistered]
        /\ UNCHANGED <<children, symbol, policy, tcall, registered>>
        /\ TreeFrame

SetPolicy ==
    \E p \in Policies :
        /\ \A t \in Threads : tcall[t].pc = "idle"
        /\ p # policy
        /\ policy' = p
        /\ tlast' = [NoTreeCall EXCEPT !.op = "set_policy",
                        !.follows = Unregistered]
        /\ UNCHANGED <<children, symbol, lazy, tcall, registered>>
        /\ TreeFrame

\* Namespace.__init__ (lines 8-12): a root without children, a new Resolver.
TreeInit ==
    /\ children = {Root}
    /\ symbol = EmptyDict
    /\ lazy = {}
    /\ policy = "overwrite"
    /\ tcall = [t \in Threads |-> Idle]
    /\ tlast = NoTreeCall
    /\ registered = EmptyDict

(***************************************************************************)
(* Namespace.to_dict and from_dict.  The nested mapping to_dict builds is  *)
(* written like _namespaces above: a function from key paths to what is    *)
(* stored there, DICT for a mapping and the string itself for a Symbol's   *)
(* name.  A Symbol's tags travel with its name and are written as the one  *)
(* empty mapping.                                                          *)
(***************************************************************************)
SymbolKey == <<"_", "_", "s", "y", "m", "b", "o", "l", "_", "_">>
NameKey == <<"n", "a", "m", "e">>
TagsKey == <<"t", "a", "g", "s">>
RootName == <<"r", "o", "o", "t">>

\* to_dict (lines 70-83): node_to_dict writes data["__symbol__"] first and
\* the children after it, so a child of that very name replaces the entry.
to_dict(name, nodes, symbols) ==
    LET at(p) == <<name>> \o p
        described == {p \in nodes : /\ p \in DOMAIN symbols
                                    /\ Append(p, SymbolKey) \notin nodes}
        keyPaths == {at(p) : p \in nodes}
                    \cup {Append(at(p), SymbolKey) : p \in described}
                    \cup {at(p) \o <<SymbolKey, NameKey>> : p \in described}
                    \cup {at(p) \o <<SymbolKey, TagsKey>> : p \in described}
    IN  [k \in keyPaths |->
            IF \E p \in described : k = at(p) \o <<SymbolKey, NameKey>>
            THEN symbols[SubSeq(k, 2, Len(k) - 2)].name
            ELSE DICT]

\* from_dict (lines 85-105): load_node makes a child of every key but
\* "__symbol__", whose value it reads with .get("name") and does not descend.
from_dict(data) ==
    LET root_name == CHOOSE k \in {q[1] : q \in DOMAIN data} : TRUE
        loaded == {q \in DOMAIN data :
                       /\ q[1] = root_name
                       /\ \A i \in 2..Len(q) : q[i] # SymbolKey}
        nodes == {Tail(q) : q \in loaded}
        sym_data(p) == <<root_name>> \o p \o <<SymbolKey>>
        holders == {p \in nodes : sym_data(p) \in DOMAIN data}
    IN  [name |-> root_name,
         children |-> nodes,
         symbol |-> [p \in holders |->
                        Symbol(NONE, GetOr(data, Append(sym_data(p), NameKey), NONE))]]

NoImport == [from |-> EmptyDict, name |-> sEmpty, children |-> {}, symbol |-> EmptyDict]

DictFrame == UNCHANGED <<flatVars, treeVars, concVars, newVars, reVars, extVars>>

\* ns.to_dict(), called between the calls that change the tree
ToDict ==
    /\ \A t \in Threads : tcall[t].pc = "idle"
    /\ exported' = to_dict(RootName, children, symbol)
    /\ UNCHANGED imported
    /\ DictFrame

\* other.from_dict(data) on a second Namespace, data being what to_dict
\* returned; the argument is kept beside the result.
FromDict ==
    /\ exported # EmptyDict
    /\ \E other \in {from_dict(exported)} :
           imported' = [from |-> exported, name |-> other.name,
                        children |-> other.children, symbol |-> other.symbol]
    /\ UNCHANGED exported
    /\ DictFrame

DictInit ==
    /\ exported = EmptyDict
    /\ imported = NoImport

(***************************************************************************)
(* Threads calling NamespaceManager.set at the same time.  What set does   *)
(* before "with self._namespace_lock" (lines 152-156) runs without the     *)
(* lock; the block under the lock (lines 158-177) runs while the thread    *)
(* holds it, and no other thread can enter a block of its own meanwhile.   *)
(***************************************************************************)
NoSet == [pc |-> "idle", ns |-> sEmpty, resolved |-> sEmpty, value |-> NONE,
          role |-> "-"]
NoneDone == [op |-> "none", ns |-> sEmpty, value |-> NONE, role |-> "-",
             out |-> "ok"]

ConcFrame == UNCHANGED <<treeVars, newVars, dictVars, reVars, extVars>>

FlatUnchanged ==
    UNCHANGED <<namespaces, metadata, aliases, versions, permissions, expirations,
                clock, last, setlog, entries>>

Done(t, c, out) ==
    /\ ccall' = [ccall EXCEPT ![t] = NoSet]
    /\ cdone' = [cdone EXCEPT ![t] = [op |-> "set", ns |-> c.resolved,
                                      value |-> c.value, role |-> c.role,
                                      out |-> out]]

\* lines 152-154: the alias is resolved and the result validated
SetBegin(threadMenu, nsMenu, valMenu, roleMenu) ==
    \E t \in threadMenu, namespace \in nsMenu, value \in valMenu, role \in roleMenu :
        LET c == [pc |-> "check", ns |-> namespace,
                  resolved |-> resolve_alias(Tables, namespace),
                  value |-> value, role |-> role]
        IN  /\ ccall[t].pc = "idle"
            /\ cdone[t].op = "none"
            /\ IF validate_namespace(c.resolved)
               THEN ccall' = [ccall EXCEPT ![t] = c] /\ UNCHANGED cdone
               ELSE Done(t, c, "ValueError")
            /\ UNCHANGED <<lock, lock_depth>>
            /\ FlatUnchanged
            /\ ConcFrame

\* lines 155-156: check_permission takes the lock for its lookup
SetCheck ==
    \E t \in Threads :
        LET c == ccall[t]
        IN  /\ c.pc = "check"
            /\ lock = NoThread
            /\ IF check_permission(Tables, c.resolved, c.role, "write")
               THEN ccall' = [ccall EXCEPT ![t].pc = "acquire"] /\ UNCHANGED cdone
               ELSE Done(t, c, "PermissionError")
            /\ UNCHANGED <<lock, lock_depth>>
            /\ FlatUnchanged
            /\ ConcFrame

\* line 158
SetAcquire ==
    \E t \in Threads :
        /\ ccall[t].pc = "acquire"
        /\ lock = NoThread
        /\ lock' = t
        /\ lock_depth' = 1
        /\ ccall' = [ccall EXCEPT ![t].pc = "locked"]
        /\ UNCHANGED cdone
        /\ FlatUnchanged
        /\ ConcFrame

\* lines 159-177, and the release of the lock on leaving the block
SetBody ==
    \E t \in Threads :
        LET c == ccall[t]
        IN  \E res \in {set_locked(Tables, c.resolved, c.value, <<"d">>, NoTtl,
                                   Readings(5))} :
            /\ c.pc = "locked"
            /\ lock = t
            /\ lock' = NoThread
            /\ lock_depth' = 0
            /\ namespaces' = res.r.namespaces
            /\ metadata' = res.r.metadata
            /\ versions' = res.r.versions
            /\ expirations' = res.r.expirations
            /\ setlog' = LogAfter(res.r, c.resolved, c.value, res.out = "ok")
            /\ entries' = EntriesAfter(res.r, c.resolved, c.value, res.out = "ok")
            /\ last' = Call("set", c.ns, c.role, c.value, res)
            /\ Done(t, c, res.out)
            /\ UNCHANGED <<aliases, permissions, clock>>
            /\ ConcFrame

ConcInit ==
    /\ lock = NoThread
    /\ lock_depth = 0
    /\ ccall = [t \in Threads |-> NoSet]
    /\ cdone = [t \in Threads |-> NoneDone]

(***************************************************************************)
(* Threads calling rollback and get at the same time.  Both take           *)
(* _namespace_lock (lines 242, 194) and, holding it, call set (line 246)   *)
(* and delete (line 197), which take it again (lines 139, 158, 260).  The  *)
(* lock is a threading.RLock (line 42): lock_depth counts the holder's     *)
(* acquisitions and the lock is free when the count is back at zero.       *)
(***************************************************************************)
ReFrame == UNCHANGED <<treeVars, newVars, dictVars, ccall, cdone, extVars>>

NoRe == [pc |-> "idle", op |-> "none", ns |-> sEmpty, role |-> "-", ts |-> 0,
         val |-> NONE, out |-> "ok", inner |-> FALSE]
NoneReDone == [op |-> "none", ns |-> sEmpty, out |-> "ok", inner |-> FALSE]

\* threading.RLock.acquire: the holder may acquire again
reenters_plain(holder, t) == holder = NoThread
reenters(holder, t) == holder = NoThread \/ holder = t

\* "with self._namespace_lock": entering and leaving the block
Acquire(t) ==
    /\ reenters(lock, t)
    /\ lock' = t
    /\ lock_depth' = lock_depth + 1

Release(t) ==
    /\ lock = t
    /\ lock_depth' = lock_depth - 1
    /\ lock' = IF lock_depth = 1 THEN NoThread ELSE t

ReMoves(t, c) == rcall' = [rcall EXCEPT ![t] = c] /\ UNCHANGED rdone

ReDone(t, c, out) ==
    /\ rcall' = [rcall EXCEPT ![t] = NoRe]
    /\ rdone' = [rdone EXCEPT ![t] = [op |-> c.op, ns |-> c.ns, out |-> out,
                                      inner |-> c.inner]]

\* The tables after a block of set or delete has run in thread t's call.
ReInstall(res, c, written, appended) ==
    /\ namespaces' = res.r.namespaces
    /\ metadata' = res.r.metadata
    /\ versions' = res.r.versions
    /\ expirations' = res.r.expirations
    /\ setlog' = LogAfter(res.r, written, c.val, appended)
    /\ entries' = EntriesAfter(res.r, written, c.val, appended)
    /\ last' = Call(c.op, c.ns, c.role, c.val, res)
    /\ UNCHANGED <<aliases, permissions, clock>>

\* rollback, line 241
RollbackBegin(threadMenu, nsMenu, limit) ==
    \E t \in threadMenu, namespace \in nsMenu, timestamp \in 0..limit :
        /\ rcall[t].pc = "idle"
        /\ rdone[t].op = "none"
        /\ ReMoves(t, [NoRe EXCEPT !.pc = "rb_acquire", !.op = "rollback",
                                   !.ns = resolve_alias(Tables, namespace),
                                   !.role = "admin", !.ts = timestamp])
        /\ UNCHANGED <<lock, lock_depth>>
        /\ FlatUnchanged
        /\ ReFrame

\* rollback, line 242
RollbackAcquire(t) ==
    /\ rcall[t].pc = "rb_acquire"
    /\ Acquire(t)
    /\ ReMoves(t, [rcall[t] EXCEPT !.pc = "rb_scan"])
    /\ FlatUnchanged
    /\ ReFrame

\* rollback, lines 243-245: the newest version not after the timestamp
RollbackScan(t) ==
    LET c == rcall[t]
        vs == GetOr(versions, c.ns, << >>)
        ok == {i \in 1..Len(vs) : vs[i][1] <= c.ts}
    IN  /\ c.pc = "rb_scan"
        /\ lock = t
        /\ IF ok = {} THEN ReMoves(t, [c EXCEPT !.pc = "release"])
           ELSE LET i == CHOOSE i \in ok : \A j \in ok : j <= i
                IN  ReMoves(t, [c EXCEPT !.pc = "rb_set_check", !.val = vs[i][2]])
        /\ UNCHANGED <<lock, lock_depth>>
        /\ FlatUnchanged
        /\ ReFrame

\* rollback, line 246: set's lines 152-156; check_permission takes the lock
\* for its lookup (line 139) and an exception leaves rollback's block
RollbackSetCheck(t) ==
    LET c == rcall[t]
        resolved == resolve_alias(Tables, c.ns)
    IN  /\ c.pc = "rb_set_check"
        /\ reenters(lock, t)
        /\ IF ~validate_namespace(resolved)
           THEN ReMoves(t, [c EXCEPT !.pc = "release", !.out = "ValueError"])
           ELSE IF ~check_permission(Tables, resolved, c.role, "write")
           THEN ReMoves(t, [c EXCEPT !.pc = "release", !.out = "PermissionError"])
           ELSE ReMoves(t, [c EXCEPT !.pc = "rb_set_acquire", !.ns = resolved])
        /\ UNCHANGED <<lock, lock_depth>>
        /\ FlatUnchanged
        /\ ReFrame

\* set, line 158, reached from rollback
RollbackSetAcquire(t) ==
    /\ rcall[t].pc = "rb_set_acquire"
    /\ Acquire(t)
    /\ ReMoves(t, [rcall[t] EXCEPT !.pc = "rb_set_body", !.inner = TRUE])
    /\ FlatUnchanged
    /\ ReFrame

\* set, lines 159-177, and the end of set's block
RollbackSetBody(t) ==
    LET c == rcall[t]
    IN  \E res \in {set_locked(Tables, c.ns, c.val, sEmpty, NoTtl, Readings(5))} :
            /\ c.pc = "rb_set_body"
            /\ Release(t)
            /\ ReInstall(res, c, c.ns, res.out = "ok")
            /\ ReMoves(t, [c EXCEPT !.pc = "release", !.out = res.out])
            /\ ReFrame

\* get, lines 190-192
GetBegin(threadMenu, nsMenu, roleMenu) ==
    \E t \in threadMenu, namespace \in nsMenu, role \in roleMenu :
        LET c == [NoRe EXCEPT !.pc = "get_acquire", !.op = "get",
                              !.ns = resolve_alias(Tables, namespace),
                              !.role = role]
        IN  /\ rcall[t].pc = "idle"
            /\ rdone[t].op = "none"
            /\ reenters(lock, t)
            /\ IF check_permission(Tables, c.ns, role, "read")
               THEN ReMoves(t, c)
               ELSE ReDone(t, c, "PermissionError")
            /\ UNCHANGED <<lock, lock_depth>>
            /\ FlatUnchanged
            /\ ReFrame

\* get, line 194
GetAcquire(t) ==
    /\ rcall[t].pc = "get_acquire"
    /\ Acquire(t)
    /\ ReMoves(t, [rcall[t] EXCEPT !.pc = "get_expiry"])
    /\ FlatUnchanged
    /\ ReFrame

\* get, line 196, and the walk of lines 200-206 for an entry that has not
\* expired
GetExpiry(t) ==
    LET c == rcall[t]
        walked == get_walk(Tables, c.ns, "default")
    IN  /\ c.pc = "get_expiry"
        /\ lock = t
        /\ IF c.ns \in DOMAIN expirations /\ clock > expirations[c.ns]
           THEN ReMoves(t, [c EXCEPT !.pc = "get_delete_check"])
           ELSE ReMoves(t, [c EXCEPT !.pc = "release", !.out = walked.out,
                                     !.val = walked.ret])
        /\ UNCHANGED <<lock, lock_depth>>
        /\ FlatUnchanged
        /\ ReFrame

\* get, line 197: delete's lines 256-258
GetDeleteCheck(t) ==
    LET c == rcall[t]
        resolved == resolve_alias(Tables, c.ns)
    IN  /\ c.pc = "get_delete_check"
        /\ reenters(lock, t)
        /\ IF check_permission(Tables, resolved, c.role, "write")
           THEN ReMoves(t, [c EXCEPT !.pc = "get_delete_acquire", !.ns = resolved])
           ELSE ReMoves(t, [c EXCEPT !.pc = "release", !.out = "PermissionError"])
        /\ UNCHANGED <<lock, lock_depth>>
        /\ FlatUnchanged
        /\ ReFrame

\* delete, line 260, reached from get
GetDeleteAcquire(t) ==
    /\ rcall[t].pc = "get_delete_acquire"
    /\ Acquire(t)
    /\ ReMoves(t, [rcall[t] EXCEPT !.pc = "get_delete_body", !.inner = TRUE])
    /\ FlatUnchanged
    /\ ReFrame

\* delete, lines 261-270, the end of delete's block, and get's line 198
GetDeleteBody(t) ==
    LET c == rcall[t]
    IN  \E res \in {delete_locked(Tables, c.ns)} :
            /\ c.pc = "get_delete_body"
            /\ Release(t)
            /\ ReInstall(res, c, sEmpty, FALSE)
            /\ ReMoves(t, [c EXCEPT !.pc = "release", !.out = res.out,
                                    !.val = "default"])
            /\ ReFrame

\* the end of rollback's or get's own block (lines 242, 194), left by a
\* return or by an exception
ReRelease(t) ==
    /\ rcall[t].pc = "release"
    /\ Release(t)
    /\ ReDone(t, rcall[t], rcall[t].out)
    /\ FlatUnchanged
    /\ ReFrame

ReInit ==
    /\ rcall = [t \in Threads |-> NoRe]
    /\ rdone = [t \in Threads |-> NoneReDone]

(***************************************************************************)
(* NamespaceManager.__new__ (lines 29-43), called by several threads.      *)
(* instance is the class attribute _instance; the tables are those of the  *)
(* object it names, and creating an object starts them empty.              *)
(***************************************************************************)
NewFrame == UNCHANGED <<treeVars, concVars, dictVars, reVars, extVars>>

\* line 33: with cls._lock
enters_unlocked(holder) == TRUE
enters(holder) == holder = NoThread

NewAcquire ==
    \E t \in Threads :
        /\ ncall[t] = "idle"
        /\ enters(class_lock)
        /\ class_lock' = t
        /\ ncall' = [ncall EXCEPT ![t] = "locked"]
        /\ UNCHANGED <<instance, created, handle>>
        /\ FlatUnchanged
        /\ NewFrame

\* line 34: if cls._instance is None
NewCheck ==
    \E t \in Threads :
        /\ ncall[t] = "locked"
        /\ ncall' = [ncall EXCEPT ![t] = IF instance = 0 THEN "create" ELSE "return"]
        /\ UNCHANGED <<class_lock, instance, created, handle>>
        /\ FlatUnchanged
        /\ NewFrame

\* lines 35-42: the object is created and its tables start empty
NewCreate ==
    \E t \in Threads :
        /\ ncall[t] = "create"
        /\ instance' = created + 1
        /\ created' = created + 1
        /\ namespaces' = EmptyDict
        /\ metadata' = EmptyDict
        /\ aliases' = EmptyDict
        /\ versions' = EmptyDict
        /\ permissions' = EmptyDict
        /\ expirations' = EmptyDict
        /\ ncall' = [ncall EXCEPT ![t] = "return"]
        /\ UNCHANGED <<class_lock, handle, clock, last, setlog, entries>>
        /\ NewFrame

\* line 43, and the release of the class lock on leaving the block
NewReturn ==
    \E t \in Threads :
        /\ ncall[t] = "return"
        /\ handle' = [handle EXCEPT ![t] = instance]
        /\ class_lock' = NoThread
        /\ ncall' = [ncall EXCEPT ![t] = "idle"]
        /\ UNCHANGED <<instance, created>>
        /\ FlatUnchanged
        /\ NewFrame

\* A thread that holds a handle calls the instance through it.
HoldsHandle == \E t \in Threads : handle[t] # 0 /\ handle[t] = instance

\* Calls made through a handle.
HandleSetPermission(nsMenu, roleMenu, tokenMenu) ==
    HoldsHandle /\ SetPermission(nsMenu, roleMenu, tokenMenu)

HandleSet(nsMenu, valMenu, roleMenu, depth) ==
    HoldsHandle /\ Set(nsMenu, valMenu, roleMenu, {NoTtl}, {5}, MaxTime, depth)

\* No NamespaceManager() has run yet.
NotConstructed ==
    /\ class_lock = NoThread
    /\ instance = 0
    /\ created = 0
    /\ ncall = [t \in Threads |-> "idle"]
    /\ handle = [t \in Threads |-> 0]

\* Every thread has called NamespaceManager() once.
Constructed ==
    /\ class_lock = NoThread
    /\ instance = 1
    /\ created = 1
    /\ ncall = [t \in Threads |-> "idle"]
    /\ handle = [t \in Threads |-> 1]

(***************************************************************************)
(* events.observer.Subject.  _observers is the list that heapq.heappush    *)
(* and heapq.heapify maintain, of pairs (-priority, observer); notify      *)
(* iterates a copy of that list from its first element to its last.  An    *)
(* observer is a ConcreteObserver, numbered in the order of its name       *)
(* (__lt__, line 167); it is interested in one topic, and a message is the *)
(* set of topics it contains (line 155).                                   *)
(***************************************************************************)
MaxObservers == 3
MaxPriority == 2
MaxHeapLen == 3

ObserverIds == 1..MaxObservers
Priorities == 0..MaxPriority
interested_in == [o \in ObserverIds |-> IF o = MaxObservers THEN "y" ELSE "x"]
Messages == {{"x"}, {"x", "y"}}

\* ConcreteObserver.is_interested
is_interested(o, message) == interested_in[o] \in message

\* (p, o) < (q, u) on tuples: the first components decide, then the observers
LtItem(a, b) == a[1] < b[1] \/ (a[1] = b[1] /\ a[2] < b[2])

\* heapq._siftdown(heap, startpos, pos), positions counted from 0
RECURSIVE siftdown(_, _, _, _)
siftdown(heap, startpos, pos, newitem) ==
    IF pos > startpos /\ LtItem(newitem, heap[((pos - 1) \div 2) + 1])
    THEN siftdown([heap EXCEPT ![pos + 1] = heap[((pos - 1) \div 2) + 1]],
                  startpos, (pos - 1) \div 2, newitem)
    ELSE [heap EXCEPT ![pos + 1] = newitem]

\* heapq.heappush(heap, item)
heappush(heap, item) == siftdown(Append(heap, item), 0, Len(heap), item)

\* heapq._siftup(heap, pos): the smaller child moves up until a leaf is hit,
\* then the item is sifted down from there
RECURSIVE siftup_from(_, _, _, _)
siftup_from(heap, startpos, pos, newitem) ==
    LET childpos == 2 * pos + 1
        rightpos == childpos + 1
        c == IF rightpos < Len(heap) /\ ~LtItem(heap[childpos + 1], heap[rightpos + 1])
             THEN rightpos ELSE childpos
    IN  IF childpos < Len(heap)
        THEN siftup_from([heap EXCEPT ![pos + 1] = heap[c + 1]], startpos, c, newitem)
        ELSE siftdown([heap EXCEPT ![pos + 1] = newitem], startpos, pos, newitem)
siftup(heap, pos) == siftup_from(heap, pos, pos, heap[pos + 1])

\* heapq.heapify(x): for i in reversed(range(n // 2)): _siftup(x, i)
RECURSIVE heapify_from(_, _)
heapify_from(x, i) == IF i < 0 THEN x ELSE heapify_from(siftup(x, i), i - 1)
heapify(x) == heapify_from(x, (Len(x) \div 2) - 1)

ObsFrame == UNCHANGED <<flatVars, treeVars, concVars, newVars, dictVars, reVars, svcVars>>

NoObsCall == [op |-> "none", observer |-> 0, priority |-> 0, message |-> {},
              updates |-> << >>]

\* Subject.attach (lines 76-78)
Attach(obsMenu, prioMenu, limit) ==
    \E observer \in obsMenu, priority \in prioMenu :
        /\ Len(observers) < limit
        /\ observers' = heappush(observers, <<0 - priority, observer>>)
        /\ active_observers' = active_observers \cup {observer}
        /\ olast' = [NoObsCall EXCEPT !.op = "attach", !.observer = observer,
                                      !.priority = priority]
        /\ ObsFrame

\* Subject.detach (lines 87-90)
Detach(obsMenu) ==
    \E observer \in obsMenu :
        /\ active_observers' = active_observers \ {observer}
        /\ observers' = heapify(SelectSeq(observers,
                                  LAMBDA e : e[2] \in active_observers \ {observer}))
        /\ olast' = [NoObsCall EXCEPT !.op = "detach", !.observer = observer]
        /\ ObsFrame

\* Subject.notify (lines 99-103): the (-priority, observer) pairs whose
\* observer got update, in the order of the calls
Notify(msgMenu) ==
    \E message \in msgMenu :
        /\ olast' = [NoObsCall EXCEPT
                        !.op = "notify", !.message = message,
                        !.updates = SelectSeq(observers,
                                        LAMBDA e : is_interested(e[2], message))]
        /\ UNCHANGED <<observers, active_observers>>
        /\ ObsFrame

\* Subject.__init__ (lines 63-66)
ObsInit ==
    /\ observers = << >>
    /\ active_observers = {}
    /\ olast = NoObsCall

(***************************************************************************)
(* engine.services.ServiceRegistry.  Every method body runs inside         *)
(* "with self._lock", and _lock is a threading.Lock (line 65): acquiring   *)
(* it blocks while it is held, whoever holds it.  A call is followed step  *)
(* by step: it waits for the lock, runs its body, and register then calls  *)
(* self.get for each dependency (line 102) from inside its own with block. *)
(***************************************************************************)
SvcFrame == UNCHANGED <<flatVars, treeVars, concVars, newVars, dictVars, reVars, obsVars>>

NoSvc == [pc |-> "idle", op |-> "none", name |-> "-", singleton |-> FALSE,
          deps |-> << >>, aliases |-> << >>, i |-> 0, then |-> "-",
          resolved |-> "-", inner |-> FALSE]
NoneSvcDone == [op |-> "none", name |-> "-", out |-> "ok", ret |-> NONE]

\* threading.Lock.acquire: the lock is free
lock_free(holder, t) == holder = NoThread

SvcMoves(t, c) == scall' = [scall EXCEPT ![t] = c] /\ UNCHANGED sdone
SvcDone(t, c, out, ret) ==
    /\ scall' = [scall EXCEPT ![t] = NoSvc]
    /\ sdone' = [sdone EXCEPT ![t] = [op |-> c.op, name |-> c.name,
                                      out |-> out, ret |-> ret]]

\* register(service_name, instance, singleton, dependencies, aliases) is called
SvcRegisterBegin(threadMenu, nameMenu, singletonMenu, depsMenu, aliasMenu) ==
    \E t \in threadMenu, name \in nameMenu, singleton \in singletonMenu,
       deps \in depsMenu, als \in aliasMenu :
        /\ scall[t].pc = "idle"
        /\ SvcMoves(t, [NoSvc EXCEPT !.pc = "acquire", !.op = "register",
                           !.name = name, !.singleton = singleton, !.deps = deps,
                           !.aliases = als, !.then = "reg_body"])
        /\ UNCHANGED <<services, factories, singletons, svc_aliases, svc_lock>>
        /\ SvcFrame

\* register_factory(service_name, factory, singleton) is called
SvcRegisterFactoryBegin(threadMenu, nameMenu, singletonMenu) ==
    \E t \in threadMenu, name \in nameMenu, singleton \in singletonMenu :
        /\ scall[t].pc = "idle"
        /\ SvcMoves(t, [NoSvc EXCEPT !.pc = "acquire", !.op = "register_factory",
                           !.name = name, !.singleton = singleton,
                           !.then = "fac_body"])
        /\ UNCHANGED <<services, factories, singletons, svc_aliases, svc_lock>>
        /\ SvcFrame

\* unregister(service_name) is called
SvcUnregisterBegin(threadMenu, nameMenu) ==
    \E t \in threadMenu, name \in nameMenu :
        /\ scall[t].pc = "idle"
        /\ SvcMoves(t, [NoSvc EXCEPT !.pc = "acquire", !.op = "unregister",
                           !.name = name, !.then = "unreg_body"])
        /\ UNCHANGED <<services, factories, singletons, svc_aliases, svc_lock>>
        /\ SvcFrame

\* get(service_name) is called; line 175 reads _aliases before the lock
SvcGetBegin(threadMenu, nameMenu) ==
    \E t \in threadMenu, name \in nameMenu :
        /\ scall[t].pc = "idle"
        /\ SvcMoves(t, [NoSvc EXCEPT !.pc = "acquire", !.op = "get", !.name = name,
                           !.resolved = GetOr(svc_aliases, name, name),
                           !.then = "get_body"])
        /\ UNCHANGED <<services, factories, singletons, svc_aliases, svc_lock>>
        /\ SvcFrame

\* "with self._lock:" (lines 89, 121, 140, 176)
SvcAcquire(t) ==
    LET c == scall[t]
    IN  /\ c.pc = "acquire"
        /\ lock_free(svc_lock, t)
        /\ svc_lock' = t
        /\ SvcMoves(t, [c EXCEPT !.pc = c.then])
        /\ UNCHANGED <<services, factories, singletons, svc_aliases>>
        /\ SvcFrame

\* register, lines 90-100: the tables are written; without dependencies the
\* with block ends and the lock is released
SvcRegisterBody(t) ==
    LET c == scall[t]
    IN  /\ c.pc = "reg_body"
        /\ services' = Put(services, c.name, "inst")
        /\ singletons' = IF c.singleton THEN Put(singletons, c.name, "inst")
                         ELSE singletons
        /\ svc_aliases' = [a \in DOMAIN svc_aliases \cup {c.aliases[k] : k \in 1..Len(c.aliases)}
                              |-> IF \E k \in 1..Len(c.aliases) : c.aliases[k] = a
                                  THEN c.name ELSE svc_aliases[a]]
        /\ IF Len(c.deps) > 0
           THEN /\ SvcMoves(t, [c EXCEPT !.pc = "reg_dep", !.i = 1])
                /\ UNCHANGED svc_lock
           ELSE /\ SvcDone(t, c, "ok", NONE)
                /\ svc_lock' = NoThread
        /\ UNCHANGED factories
        /\ SvcFrame

\* register, line 102: self.get(dependency) is called inside the with block
SvcRegisterDep(t) ==
    LET c == scall[t]
    IN  /\ c.pc = "reg_dep"
        /\ SvcMoves(t, [c EXCEPT !.pc = "acquire", !.then = "get_body",
                                 !.inner = TRUE,
                                 !.resolved = GetOr(svc_aliases, c.deps[c.i], c.deps[c.i])])
        /\ UNCHANGED <<services, factories, singletons, svc_aliases, svc_lock>>
        /\ SvcFrame

\* register_factory, lines 122-131
SvcRegisterFactoryBody(t) ==
    LET c == scall[t]
    IN  /\ c.pc = "fac_body"
        /\ factories' = factories \cup {c.name}
        /\ singletons' = IF c.singleton THEN Put(singletons, c.name, NONE)
                         ELSE singletons
        /\ svc_lock' = NoThread
        /\ SvcDone(t, c, "ok", NONE)
        /\ UNCHANGED <<services, svc_aliases>>
        /\ SvcFrame

\* unregister, lines 141-148
SvcUnregisterBody(t) ==
    LET c == scall[t]
        resolved_name == GetOr(svc_aliases, c.name, c.name)
    IN  /\ c.pc = "unreg_body"
        /\ svc_aliases' = Pop(svc_aliases, c.name)
        /\ services' = Pop(services, resolved_name)
        /\ factories' = factories \ {resolved_name}
        /\ singletons' = Pop(singletons, resolved_name)
        /\ svc_lock' = NoThread
        /\ SvcDone(t, c, "ok", NONE)
        /\ SvcFrame

\* What get's body (lines 177-198) ends with, made == the factory returned.
get_outcome(c, made) ==
    IF c.resolved \in DOMAIN singletons /\ singletons[c.resolved] # NONE
    THEN <<"ok", singletons[c.resolved]>>
    ELSE IF c.resolved \in factories
         THEN IF made THEN <<"ok", "made">>
              ELSE <<"ServiceInitializationException", NONE>>
    ELSE IF c.resolved \in DOMAIN services
         THEN <<"ok", services[c.resolved]>>
    ELSE <<"ServiceNotRegisteredException", NONE>>

\* get, lines 177-198, and the end of its with block.  A get that register
\* made returns into register's loop; when the loop ends or the get raised,
\* register's own with block ends by releasing the lock get has released.
SvcGetBody(t) ==
    LET c == scall[t]
    IN  /\ c.pc = "get_body"
        /\ \E made \in BOOLEAN :
              LET o == get_outcome(c, made)
                  fresh == /\ ~(c.resolved \in DOMAIN singletons
                                   /\ singletons[c.resolved] # NONE)
                           /\ c.resolved \in factories
              IN  /\ (~fresh => made)
                  /\ singletons' = IF fresh /\ made /\ c.resolved \in DOMAIN singletons
                                   THEN Put(singletons, c.resolved, "made")
                                   ELSE singletons
                  /\ IF ~c.inner THEN SvcDone(t, c, o[1], o[2])
                     ELSE IF o[1] = "ok" /\ c.i < Len(c.deps)
                          THEN SvcMoves(t, [c EXCEPT !.pc = "reg_dep", !.i = c.i + 1])
                     ELSE SvcDone(t, c, "RuntimeError", NONE)
        /\ svc_lock' = NoThread
        /\ UNCHANGED <<services, factories, svc_aliases>>
        /\ SvcFrame

\* ServiceRegistry.__init__ (lines 60-69)
SvcInit ==
    /\ services = EmptyDict
    /\ factories = {}
    /\ singletons = EmptyDict
    /\ svc_aliases = EmptyDict
    /\ svc_lock = NoThread
    /\ scall = [t \in Threads |-> NoSvc]
    /\ sdone = [t \in Threads |-> NoneSvcDone]

Init == FlatInit /\ TreeInit /\ DictInit /\ ConcInit /\ ReInit /\ ObsInit /\ SvcInit /\ Constructed
InitNew == FlatInit /\ TreeInit /\ DictInit /\ ConcInit /\ ReInit /\ ObsInit /\ SvcInit /\ NotConstructed

(***************************************************************************)
(* Spec: version history.  Role svc sets and deletes a.b and its parent a   *)
(* once it was granted "write" on them; rollback, which takes no role,     *)
(* re-applies a recorded value of a.b; the clock advances between calls.   *)
(***************************************************************************)
Next ==
    \/ Tick(MaxTime)
    \/ SetPermission({sAB}, Roles, {"write"})
    \/ SetPermission({sA}, {"svc"}, {"write"})
    \/ Set({sAB}, {"v1", "v2"}, {"svc"}, {NoTtl}, {5}, MaxTime, MaxVersions)
    \/ Set({sA}, {"v1"}, {"svc"}, {NoTtl}, {5}, MaxTime, MaxVersions)
    \/ Delete({sAB, sA}, {"svc"})
    \/ Rollback({sAB}, {5}, MaxTime, MaxVersions)

vars == <<flatVars, treeVars, concVars, newVars, dictVars, reVars, extVars>>

\* vars, led by the name of the last operation: two states that differ in it
\* are told apart before what different operations returned is compared.
callVars == <<last.op, vars>>

Spec == Init /\ [][Next]_vars

(***************************************************************************)
(* C4.  After N successful set calls on a namespace, counted from the last *)
(* time its history was removed (by delete or by the reclaim of an expired *)
(* entry), get_versions returns exactly N entries: the values of those     *)
(* calls in call order, with non-decreasing timestamps.                    *)
(***************************************************************************)
C4_VersionsFollowSets ==
    /\ DOMAIN versions = DOMAIN setlog
    /\ \A n \in DOMAIN setlog :
        LET vs == get_versions(Tables, n).ret
        IN  /\ Len(vs) = Len(setlog[n])
            /\ \A i \in 1..Len(vs) : vs[i][2] = setlog[n][i]
            /\ \A i \in 1..Len(vs), j \in 1..Len(vs) : i < j => vs[i][1] <= vs[j][1]

\* Three sets of a.b, of different values, at different times, just made.
C4_Witness ==
    /\ last.op = "set" /\ last.out = "ok" /\ last.ns = sAB
    /\ sAB \in DOMAIN versions
    /\ Len(versions[sAB]) = 3
    /\ versions[sAB][1][2] # versions[sAB][2][2]
    /\ versions[sAB][1][1] < versions[sAB][3][1]

(***************************************************************************)
(* C5.  rollback(P, ts) on a namespace with N recorded versions, one of    *)
(* them at or before ts, makes get(P) return the value of the newest       *)
(* version at or before ts, and leaves N+1 versions: the N as they were    *)
(* and one new head with that value.                                       *)
(***************************************************************************)
NewestUpTo(vs, timestamp) ==
    CHOOSE i \in 1..Len(vs) :
        /\ vs[i][1] <= timestamp
        /\ \A j \in 1..Len(vs) : vs[j][1] <= timestamp => j <= i

C5_RollbackStep ==
    LET P == last'.ns
        before == get_versions(Tables, P).ret
        after == get_versions(Tables', P).ret
    IN  (last'.op = "rollback"
         /\ \E i \in 1..Len(before) : before[i][1] <= last'.val)
        => /\ last'.out = "ok"
           /\ Len(after) = Len(before) + 1
           /\ SubSeq(after, 1, Len(before)) = before
           /\ after[Len(after)][2] = before[NewestUpTo(before, last'.val)][2]
           /\ get_walk(Tables', P, "default").ret
                  = before[NewestUpTo(before, last'.val)][2]

C5_Rollback == [][C5_RollbackStep]_vars

(***************************************************************************)
(* SpecPerm: write permission.  The aliases k -> a and a -> b may be       *)
(* recorded; role svc may be granted "write" on a and on b; role admin is  *)
(* granted nothing.  Both roles set through k, a, b and a malformed name.  *)
(***************************************************************************)
NextPerm ==
    \/ SetAlias({<<sK, sA>>, <<sA, sB>>})
    \/ DeleteAlias({sA})
    \/ SetPermission({sA, sB}, {"svc"}, {"write"})
    \/ Set({sK, sA, sB, sBadChr}, {"v1"}, Roles, {NoTtl}, {5}, MaxTime, MaxVersions)

SpecPerm == Init /\ [][NextPerm]_vars

(***************************************************************************)
(* C1.  Writes are fail-closed: a set by a role that has no "write" token  *)
(* on the namespace the call addresses (the argument, or the namespace the *)
(* argument is an alias of) ends in a permission error and leaves the      *)
(* stored values, metadata, histories and expirations as they were.        *)
(***************************************************************************)
HasToken(namespace, role, token) ==
    token \in GetOr(GetOr(permissions, namespace, EmptyDict), role, {})

C1_SetStep ==
    LET P == GetOr(aliases, last'.ns, last'.ns)
    IN  (last'.op = "set" /\ validate_namespace(P)
         /\ ~HasToken(P, last'.role, "write"))
        => /\ last'.out = "PermissionError"
           /\ UNCHANGED <<namespaces, metadata, versions, expirations>>

C1_FailClosedWrites == [][C1_SetStep]_vars

(***************************************************************************)
(* SpecTtl: expiry.  Role admin, once granted "read" and "write" on a.b,   *)
(* sets it with a ttl of one second or with none; roles admin and svc      *)
(* (svc is granted "read" only) get it, and a's keys are listed, as the    *)
(* clock advances.                                                         *)
(***************************************************************************)
MaxTtlTime == 2
MaxTtlVersions == 2

NextTtl ==
    \/ Tick(MaxTtlTime)
    \/ SetPermission({sAB}, {"admin"}, Tokens)
    \/ SetPermission({sAB}, {"svc"}, {"read"})
    \/ Set({sAB}, {"v1", "v2"}, {"admin"}, {1, NoTtl}, {4, 5}, MaxTtlTime, MaxTtlVersions)
    \/ Get({sAB}, Roles)
    \/ ListKeys({sA})

SpecTtl == Init /\ [][NextTtl]_vars

(***************************************************************************)
(* C6.  A get of a namespace that has an expiration, by a role that passes *)
(* the read check: before the expiration time it returns the value last    *)
(* set; after it, it returns the caller's default, and then the leaf key   *)
(* is no longer listed under the parent and the namespace has no metadata, *)
(* history or expiration.                                                  *)
(***************************************************************************)
ParentOf(namespace) == Join(SubSeq(Split(namespace), 1, Len(Split(namespace)) - 1))
LeafOf(namespace) == Split(namespace)[Len(Split(namespace))]

C6_GetStep ==
    LET P == GetOr(aliases, last'.ns, last'.ns)
    IN  (last'.op = "get" /\ HasToken(P, last'.role, "read")
         /\ P \in DOMAIN expirations)
        => /\ clock < expirations[P]
                => /\ last'.out = "ok"
                   /\ last'.ret = versions[P][Len(versions[P])][2]
           /\ clock > expirations[P]
                => /\ last'.out = "ok"
                   /\ last'.ret = "default"
                   /\ P \notin DOMAIN metadata'
                   /\ P \notin DOMAIN versions'
                   /\ P \notin DOMAIN expirations'
                   /\ LeafOf(P) \notin list_keys(Tables', ParentOf(P)).ret

C6_TtlExpiry == [][C6_GetStep]_callVars

(***************************************************************************)
(* SpecSearch: search.  Role admin, once granted "write", sets a.b.c = v1, *)
(* a.b.d = v2 and a.x = v3 or {} (an empty dict as the value), deletes     *)
(* them, and searches with glob patterns.                                  *)
(***************************************************************************)
MaxSearchVersions == 1

Patterns == { <<"a", ".", "b", ".", "*">>, <<"a", ".", "*">>, <<"*">>,
              <<"a", ".", "?">>, <<"a", ".", "x">> }

NextSearch ==
    \/ SetPermission({sABC, sABD, sAX}, {"admin"}, {"write"})
    \/ Set({sABC}, {"v1"}, {"admin"}, {NoTtl}, {5}, MaxTime, MaxSearchVersions)
    \/ Set({sABD}, {"v2"}, {"admin"}, {NoTtl}, {5}, MaxTime, MaxSearchVersions)
    \/ Set({sAX}, {"v3", DICT}, {"admin"}, {NoTtl}, {5}, MaxTime, MaxSearchVersions)
    \/ Delete({sABC, sABD, sAX}, {"admin"})
    \/ Search(Patterns)

SpecSearch == Init /\ [][NextSearch]_vars

TreePaths == {sA, sAB, sAX}

NextTree ==
    \/ RegisterBegin({"t1"}, TreePaths \cup {sEmpty},
                     {RawArg("v1"), SymbolArg("v2", "s")}, TRUE)
    \/ RegisterWalk
    \/ RegisterCheck
    \/ RegisterWrite
    \/ ResolveBegin({"t1"}, TreePaths, TRUE)
    \/ ResolveWalk
    \/ ResolveCheck
    \/ ResolveStore
    \/ ResolveReturn
    \/ UnregisterBegin({"t1"}, TreePaths, TRUE)
    \/ UnregisterWalk
    \/ UnregisterClear
    \/ RegisterLazy({sAB})
    \/ SetPolicy

SpecTree == Init /\ [][NextTree]_vars

(***************************************************************************)
(* C2.  Round trip: once register(P, V) has completed, and until P is      *)
(* registered again or unregistered, every resolve(P) returns without      *)
(* raising and returns V: the raw value that was passed, or the value held *)
(* by the Symbol that was passed.                                          *)
(***************************************************************************)
C2_RoundTrip ==
    (tlast.op = "resolve" /\ tlast.path \in DOMAIN registered)
        => (tlast.out = "ok" /\ tlast.ret = registered[tlast.path])

\* a.b was registered below a registered a, and a resolve of a.b returned it
C2_Witness ==
    /\ tlast.op = "resolve"
    /\ tlast.path = sAB
    /\ sAB \in DOMAIN registered
    /\ sA \in DOMAIN registered
    /\ tlast.out = "ok"
    /\ tlast.ret = "v1"

(***************************************************************************)
(* C3.  A register call whose path holds a live Symbol has invoked the     *)
(* conflict handler exactly once by the time it is about to store the new  *)
(* Symbol (the new value is not yet visible then), and exactly once when   *)
(* it has ended, stored or refused; a register call whose path holds no    *)
(* Symbol (never registered, or unregistered) invokes it zero times.       *)
(***************************************************************************)
C3_ConflictHandler ==
    /\ \A t \in Threads :
          tcall[t].pc = "reg_write"
              => /\ tcall[t].handled = (IF tcall[t].occupied THEN 1 ELSE 0)
                 /\ tcall[t].occupied
                      => resolve_return(symbol, tcall[t].parts) # NONE
    /\ (tlast.op = "register" /\ tlast.out # "PathFormatInvalid")
          => tlast.handled = (IF tlast.occupied THEN 1 ELSE 0)

\* a register over an occupied path went through, after one handler call
C3_Witness ==
    /\ tlast.op = "register"
    /\ tlast.out = "ok"
    /\ tlast.occupied
    /\ tlast.handled = 1
    /\ tlast.arg = SymbolArg("v2", "s")
    /\ resolve_return(symbol, split_path(tlast.path)) = "v2"

(***************************************************************************)
(* C7.  What resolve(path) returns in a given tree: resolve's outcome as a *)
(* function of the nodes, the Symbols and the lazy entries.                *)
(***************************************************************************)
ResolveOutcome(nodes, symbols, entries_, path) ==
    LET parts == split_path(path)
    IN  IF \E i \in 1..Len(parts) : SubSeq(parts, 1, i) \notin nodes
        THEN <<"KeyError", NONE>>
        ELSE IF parts \notin DOMAIN symbols /\ has_lazy(entries_, path)
             THEN <<"ok", load_lazy(entries_, path).value>>
        ELSE <<"ok", resolve_return(symbols, parts)>>

\* A completed unregister(P) leaves what every other path resolves to as it was.
UnregisterFrame ==
    \A t \in Threads :
        (tcall[t].op = "unregister" /\ tcall'[t].pc = "idle")
            => \A q \in TreePaths \ {tcall[t].path} :
                  ResolveOutcome(children', symbol', lazy', q)
                      = ResolveOutcome(children, symbol, lazy, q)

AfterUnregister ==
    /\ tlast.op = "resolve"
    /\ tlast.follows = tlast.path

NextConc ==
    \/ SetPermission({sA, sAX, sAB}, {"svc"}, {"write"})
    \/ SetBegin({"t1"}, {sA, sAX}, {"v1"}, {"svc"})
    \/ SetBegin({"t2"}, {sAB}, {"v2"}, {"svc"})
    \/ SetCheck
    \/ SetAcquire
    \/ SetBody

SpecConc == Init /\ [][NextConc]_vars

(***************************************************************************)
(* C9.  When each thread has called set on a path of its own and held      *)
(* "write" on it, every call has completed without an exception, and once  *)
(* all have, get's walk finds under each path the value its last writer    *)
(* (here its only writer) wrote.                                           *)
(***************************************************************************)
C9_NoLostUpdate ==
    \A t \in Threads :
        (cdone[t].op = "set" /\ cdone[t].out # "PermissionError")
            => /\ cdone[t].out = "ok"
               /\ (\A u \in Threads : cdone[u].op = "set")
                     => get_walk(Tables, cdone[t].ns, "default").ret = cdone[t].value

(***************************************************************************)
(* SpecNew: two threads construct NamespaceManager(), any number of times  *)
(* each; a thread that holds a handle grants "write" on a.b and sets a.b   *)
(* through it.                                                             *)
(***************************************************************************)
MaxNewVersions == 2

NextNew ==
    \/ NewAcquire
    \/ NewCheck
    \/ NewCreate
    \/ NewReturn
    \/ HandleSetPermission({sAB}, {"svc"}, {"write"})
    \/ HandleSet({sAB}, {"v1", "v2"}, {"svc"}, MaxNewVersions)

SpecNew == InitNew /\ [][NextNew]_vars

(***************************************************************************)
(* C10.  Singleton: __new__ creates and initialises at most one object,    *)
(* exactly one once a construction has returned; every construction, on    *)
(* whichever thread, returns that object; and what was set through a       *)
(* handle is still there after any later construction: every entry that    *)
(* was set has its value and its history.                                  *)
(***************************************************************************)
C10_Singleton ==
    /\ created <= 1
    /\ \A t \in Threads : handle[t] # 0 => (handle[t] = 1 /\ instance = 1 /\ created = 1)
    /\ \A n \in DOMAIN entries :
          /\ get_walk(Tables, n, "default").ret = entries[n]
          /\ n \in DOMAIN versions
          /\ GetOr(GetOr(permissions, n, EmptyDict), "svc", {}) = {"write"}

\* t1 holds the instance and has set a.b through it; t2, constructing after
\* that, has passed the check of _instance and is about to return
C10_Witness ==
    /\ handle["t1"] = 1
    /\ handle["t2"] = 0
    /\ sAB \in DOMAIN entries
    /\ ncall["t2"] = "return"
    /\ instance = 1
    /\ get_walk(Tables, sAB, "default").ret = "v1"

(***************************************************************************)
(* SpecLin: a thread calls set("k", ...) as role svc while set_alias and   *)
(* delete_alias make and remove the alias k -> b and "write" is granted to *)
(* svc on b.  b is never an alias, so no alias leads to another alias.     *)
(***************************************************************************)
NextLin ==
    \/ SetPermission({sB}, {"svc"}, {"write"})
    \/ SetAlias({<<sK, sB>>})
    \/ DeleteAlias({sK})
    \/ SetBegin({"t1"}, {sK}, {"v1"}, {"svc"})
    \/ SetBegin({"t2"}, {sK, sB}, {"v2"}, {"svc"})
    \/ SetCheck
    \/ SetAcquire
    \/ SetBody

SpecLin == Init /\ [][NextLin]_vars

(***************************************************************************)
(* C11.  The alias resolution, the permission check and the write of one   *)
(* set call act on one snapshot: a set that has completed successfully     *)
(* wrote a path on which its role holds "write" (permissions are never     *)
(* taken away, so the token that was checked is still there).  In every    *)
(* sequential order of these calls that is so: set("k") either finds no    *)
(* alias, checks k and writes k, or finds k -> b, checks b and writes b.   *)
(***************************************************************************)
C11_WriteIsTheOneChecked ==
    \A t \in Threads :
        (cdone[t].op = "set" /\ cdone[t].out = "ok")
            => HasToken(cdone[t].ns, cdone[t].role, "write")

(***************************************************************************)
(* SpecTreeConc: two threads on one Namespace, their calls interleaved     *)
(* statement by statement (Namespace takes no lock).  t1 registers "v1"    *)
(* and t2 "v2" at a.b; a lazy loader may be recorded for a, which the walk *)
(* of register creates without a Symbol, and both threads resolve a.       *)
(***************************************************************************)
NextTreeConc ==
    \/ RegisterBegin({"t1"}, {sAB}, {RawArg("v1")}, FALSE)
    \/ RegisterBegin({"t2"}, {sAB}, {RawArg("v2")}, FALSE)
    \/ RegisterWalk
    \/ RegisterCheck
    \/ RegisterWrite
    \/ RegisterLazy({sA})
    \/ ResolveBegin(Threads, {sA}, FALSE)
    \/ ResolveWalk
    \/ ResolveCheck
    \/ ResolveStore
    \/ ResolveReturn

SpecTreeConc == Init /\ [][NextTreeConc]_vars

\* The step in which a register call replaces a live Symbol was preceded, in
\* that call, by one invocation of the conflict handler.
OverwriteHandled ==
    \A t \in Threads :
        (/\ tcall[t].pc = "reg_write"
         /\ tcall'[t].pc = "idle"
         /\ tcall[t].parts \in DOMAIN symbol)
            => tcall[t].handled = 1

\* Two resolve calls have both run the producer of one path's lazy loader.
ProducerRunTwice ==
    \E t, u \in Threads :
        /\ t # u
        /\ tcall[t].pc = "res_store"
        /\ tcall[u].pc = "res_store"
        /\ tcall[t].path = tcall[u].path

(***************************************************************************)
(* C12.  No conflict is silently lost under concurrency: whenever a        *)
(* register call replaces a Symbol that is live at that moment (so, of two *)
(* registrations racing for an unoccupied path, the one that writes        *)
(* second), the conflict handler has been invoked for it before; and the   *)
(* producer of a pending lazy loader is not run by two concurrent resolve  *)
(* calls.                                                                  *)
(***************************************************************************)
C12_NoConflictLost ==
    /\ [][OverwriteHandled]_vars
    /\ [](~ProducerRunTwice)

(***************************************************************************)
(* Calls of the operations that take no role argument, with the role of    *)
(* the caller on record: get_versions, list_keys, search and rollback are  *)
(* the same call whoever makes it.                                         *)
(***************************************************************************)
GetVersionsBy(nsMenu, roleMenu) ==
    \E namespace \in nsMenu, role \in roleMenu :
        \E res \in {get_versions(Tables, namespace)} :
            /\ Install(res, Call("get_versions", namespace, role, NONE, res),
                       sEmpty, NONE, FALSE)
            /\ UNCHANGED clock

ListKeysBy(nsMenu, roleMenu) ==
    \E namespace \in nsMenu, role \in roleMenu :
        \E res \in {list_keys(Tables, namespace)} :
            /\ Install(res, Call("list_keys", namespace, role, NONE, res),
                       sEmpty, NONE, FALSE)
            /\ UNCHANGED clock

SearchBy(patMenu, roleMenu) ==
    \E pattern \in patMenu, role \in roleMenu :
        \E res \in {search(Tables, pattern)} :
            /\ Install(res, Call("search", pattern, role, NONE, res),
                       sEmpty, NONE, FALSE)
            /\ UNCHANGED clock

RollbackBy(nsMenu, roleMenu, depth) ==
    \E namespace \in nsMenu, role \in roleMenu, timestamp \in {clock} :
        LET T == Readings(5)
            resolved == resolve_alias(Tables, namespace)
            written == resolve_alias(Tables, resolved)
            called == \E i \in 1..Len(GetOr(versions, resolved, << >>)) :
                          versions[resolved][i][1] <= timestamp
        IN  \E res \in {rollback(Tables, namespace, timestamp, T)} :
            /\ Len(GetOr(versions, written, << >>)) < depth
            /\ Install(res, Call("rollback", namespace, role, timestamp, res),
                       written,
                       IF called /\ res.out = "ok"
                       THEN res.r.versions[written][Len(res.r.versions[written])][2]
                       ELSE NONE,
                       called /\ res.out = "ok")
            /\ UNCHANGED clock

(***************************************************************************)
(* SpecAuth: role admin is granted "read" and "write" on a.b and sets it;  *)
(* role svc is granted nothing, and calls every operation on a.b.          *)
(***************************************************************************)
MaxAuthVersions == 3

NextAuth ==
    \/ SetPermission({sAB}, {"admin"}, Tokens)
    \/ Set({sAB}, {"v1", "v2"}, Roles, {NoTtl}, {5}, MaxTime, MaxAuthVersions)
    \/ Get({sAB}, Roles)
    \/ Delete({sAB}, Roles)
    \/ GetVersionsBy({sAB}, Roles)
    \/ ListKeysBy({sA}, Roles)
    \/ SearchBy({<<"a", ".", "*">>}, Roles)
    \/ RollbackBy({sAB}, Roles, MaxAuthVersions)

SpecAuth == Init /\ [][NextAuth]_vars

NoToken(namespace, role) == \A token \in Tokens : ~HasToken(namespace, role, token)

(***************************************************************************)
(* C13.  A call by a role that holds no permission token on a.b neither    *)
(* observes a.b (its value through get or search, its key through          *)
(* list_keys of its parent, its history through get_versions) nor changes  *)
(* its value, metadata, history or expiration, whichever of set, get,      *)
(* delete, rollback, get_versions, list_keys and search it is.             *)
(***************************************************************************)
C13_Step ==
    LET c == last'
    IN  (c.op # "set_permission" /\ NoToken(sAB, c.role))
        => /\ UNCHANGED <<namespaces, metadata, versions, expirations>>
           /\ c.op \in {"set", "get", "delete"} => c.out = "PermissionError"
           /\ c.op = "get_versions" => c.ret = << >>
           /\ c.op = "list_keys" => LeafOf(sAB) \notin c.ret
           /\ c.op = "search" => \A kv \in c.ret : kv[1] # sAB

C13_PermissionOnEveryOperation == [][C13_Step]_callVars

GetMetadata(nsMenu) ==
    \E namespace \in nsMenu :
        \E res \in {get_metadata(Tables, namespace)} :
            /\ Install(res, Call("get_metadata", namespace, "-", NONE, res),
                       sEmpty, NONE, FALSE)
            /\ UNCHANGED clock

(***************************************************************************)
(* SpecExpiry: role admin holds both tokens on a.b and sets it with a ttl  *)
(* of one second or without one; time passes; every read operation is      *)
(* called on a.b, on its parent or with a pattern that matches it.         *)
(***************************************************************************)
NextExpiry ==
    \/ Tick(MaxTtlTime)
    \/ SetPermission({sAB}, {"admin"}, Tokens)
    \/ Set({sAB}, {"v1"}, {"admin"}, {1, NoTtl}, {5}, MaxTtlTime, MaxTtlVersions)
    \/ Get({sAB}, {"admin"})
    \/ ListKeys({sA})
    \/ Search({<<"a", ".", "*">>})
    \/ GetVersions({sAB})
    \/ GetMetadata({sAB})

SpecExpiry == Init /\ [][NextExpiry]_vars

Expired(namespace) ==
    namespace \in DOMAIN expirations /\ clock > expirations[namespace]

(***************************************************************************)
(* C14.  Once the time is past a.b's expiration, a read returns nothing of *)
(* a.b: get does not return its value, list_keys of its parent not its     *)
(* key, search not its pair, get_versions not its history and              *)
(* get_metadata not its metadata, whether or not a get came before.        *)
(***************************************************************************)
C14_Step ==
    LET c == last'
    IN  Expired(sAB)
        => /\ c.op = "get" => c.ret \in {"default", NONE}
           /\ c.op = "list_keys" => LeafOf(sAB) \notin c.ret
           /\ c.op = "search" => \A kv \in c.ret : kv[1] # sAB
           /\ c.op = "get_versions" => c.ret = << >>
           /\ c.op = "get_metadata" => c.ret = EmptyDict

C14_ExpiredIsAbsent == [][C14_Step]_callVars

(***************************************************************************)
(* C15.  For a namespace that was set successfully one or more times since *)
(* its history was last removed, metadata created_at is the timestamp of   *)
(* the first of these sets (the first entry of the history) and updated_at *)
(* the timestamp of the most recent one (the last entry).                  *)
(***************************************************************************)
C15_CreatedAtKept ==
    \A n \in (DOMAIN metadata) \cap (DOMAIN versions) :
        /\ metadata[n].created_at = versions[n][1][1]
        /\ metadata[n].updated_at = versions[n][Len(versions[n])][1]

\* Two dicts hold the same thing, or both nothing, under key k.
SameAt(d, e, k) ==
    /\ (k \in DOMAIN d) = (k \in DOMAIN e)
    /\ k \in DOMAIN d => d[k] = e[k]

(***************************************************************************)
(* C16.  A delete(P) by a role that holds "write" on P, once it has        *)
(* returned, leaves P without metadata, history and expiration and get's   *)
(* walk without a value for P; the mapping that held P's key is still      *)
(* there; and for every other path the stored value, the metadata, the     *)
(* history and the expiration are what they were.                          *)
(***************************************************************************)
C16_DeleteStep ==
    LET c == last'
        P == GetOr(aliases, c.ns, c.ns)
        parent == SubSeq(Split(P), 1, Len(Split(P)) - 1)
    IN  (c.op = "delete" /\ c.out = "ok" /\ HasToken(P, c.role, "write"))
        => /\ P \notin DOMAIN metadata'
           /\ P \notin DOMAIN versions'
           /\ P \notin DOMAIN expirations'
           /\ get_walk(Tables', P, "default").ret = "default"
           /\ parent \in DOMAIN namespaces => parent \in DOMAIN namespaces'
           /\ \A Q \in {sA, sAB} \ {P} :
                 /\ SameAt(namespaces', namespaces, Split(Q))
                 /\ SameAt(metadata', metadata, Q)
                 /\ SameAt(versions', versions, Q)
                 /\ SameAt(expirations', expirations, Q)

C16_DeleteFrame == [][C16_DeleteStep]_callVars

(***************************************************************************)
(* C17.  After a delete(P) that returned, no role holds any permission     *)
(* token on P: check_permission(P, role, token) is false for every role    *)
(* and every token.                                                        *)
(***************************************************************************)
C17_DeleteStep ==
    LET c == last'
        P == GetOr(aliases, c.ns, c.ns)
    IN  (c.op = "delete" /\ c.out = "ok")
        => \A role \in Roles, token \in Tokens :
               ~check_permission(Tables', P, role, token)

C17_DeleteDropsPermissions == [][C17_DeleteStep]_callVars

(***************************************************************************)
(* SpecAlias: the alias redirect.  The aliases k -> a and a -> b may be    *)
(* recorded, and set_alias is also tried with a malformed alias and with a *)
(* malformed target; role svc may be granted "read" and "write" on a and   *)
(* on b, and sets, gets and deletes through k.                             *)
(***************************************************************************)
NextAlias ==
    \/ SetAlias({<<sK, sA>>, <<sA, sB>>, <<sBadChr, sB>>, <<sK, sBadDot>>})
    \/ DeleteAlias({sA})
    \/ SetPermission({sA, sB}, {"svc"}, Tokens)
    \/ Set({sK}, {"v1"}, {"svc"}, {NoTtl}, {5}, MaxTime, MaxVersions)
    \/ Get({sK}, {"svc"})
    \/ Delete({sK}, {"svc"})

SpecAlias == Init /\ [][NextAlias]_vars

(***************************************************************************)
(* C18.  With the alias A -> B recorded, a set, get or delete called with  *)
(* A is let through exactly when the role holds the operation's token on   *)
(* B, and leaves the value, metadata and history of every path but B as    *)
(* they were, whether or not B is itself an alias; a set_alias with a      *)
(* malformed alias or target is rejected and leaves the alias table as it  *)
(* was, so that the table only ever holds well-formed names.               *)
(***************************************************************************)
C18_Step ==
    LET c == last'
        token == IF c.op = "get" THEN "read" ELSE "write"
    IN  /\ (c.op \in {"set", "get", "delete"} /\ c.ns \in DOMAIN aliases)
           => /\ (c.out # "PermissionError")
                     <=> HasToken(aliases[c.ns], c.role, token)
              /\ \A Q \in {sK, sA, sB} \ {aliases[c.ns]} :
                    /\ SameAt(namespaces', namespaces, Split(Q))
                    /\ SameAt(metadata', metadata, Q)
                    /\ SameAt(versions', versions, Q)
        /\ c.op = "set_alias"
           => /\ c.out = "ValueError" => aliases' = aliases
              /\ \A a \in DOMAIN aliases' :
                    validate_namespace(a) /\ validate_namespace(aliases'[a])

C18_AliasOneLevel == [][C18_Step]_callVars

(***************************************************************************)
(* SpecDict: export and import.  One caller registers raw values and       *)
(* Symbols at a.b and __symbol__, unregisters a.b, exports the Namespace   *)
(* with to_dict and fills a second one from the export.                    *)
(***************************************************************************)
DictPaths == {sAB, SymbolKey}

NextDict ==
    \/ RegisterBegin({"t1"}, DictPaths, {RawArg("v1"), SymbolArg("v2", "s")}, TRUE)
    \/ RegisterWalk
    \/ RegisterCheck
    \/ RegisterWrite
    \/ UnregisterBegin({"t1"}, {sAB}, TRUE)
    \/ UnregisterWalk
    \/ UnregisterClear
    \/ ToDict
    \/ FromDict

SpecDict == Init /\ [][NextDict]_vars

(***************************************************************************)
(* C19.  Export and import preserve the structure.  The mapping to_dict    *)
(* returned for the Namespace as it stands has the Namespace's name as its *)
(* only top-level key, and a key "__symbol__" in it belongs to a node that *)
(* holds a Symbol and is no child of that node.  The Namespace from_dict   *)
(* filled from that mapping has the same nodes, Symbols at the same nodes  *)
(* with the same names, and exports to the same mapping again.             *)
(***************************************************************************)
C19_ExportImport ==
    LET now == to_dict(RootName, children, symbol)
    IN  /\ exported = now
           => /\ {q[1] : q \in DOMAIN exported} = {RootName}
              /\ \A q \in DOMAIN exported :
                    q[Len(q)] = SymbolKey
                    => /\ SubSeq(q, 2, Len(q) - 1) \in DOMAIN symbol
                       /\ Tail(q) \notin children
        /\ imported.from = now
           => /\ imported.name = RootName
              /\ imported.children = children
              /\ DOMAIN imported.symbol = DOMAIN symbol
              /\ \A p \in DOMAIN symbol : imported.symbol[p].name = symbol[p].name
              /\ to_dict(imported.name, imported.children, imported.symbol) = now

(***************************************************************************)
(* SpecLazy: lazy loading.  One caller records lazy loaders for a and      *)
(* a.b, registers a value at a.b, unregisters it and resolves a and a.b;   *)
(* a loader returns its value or raises.                                   *)
(***************************************************************************)
NextLazy ==
    \/ RegisterLazy({sA, sAB})
    \/ RegisterBegin({"t1"}, {sAB}, {RawArg("v1")}, TRUE)
    \/ RegisterWalk
    \/ RegisterCheck
    \/ RegisterWrite
    \/ UnregisterBegin({"t1"}, {sAB}, TRUE)
    \/ UnregisterWalk
    \/ UnregisterClear
    \/ ResolveBegin({"t1"}, {sA, sAB}, TRUE)
    \/ ResolveWalk
    \/ ResolveCheck
    \/ ResolveStore
    \/ ResolveLoadFails
    \/ ResolveReturn

SpecLazy == Init /\ [][NextLazy]_vars

(***************************************************************************)
(* C20.  A failed lazy load is not cached.  A resolve(P) whose loader      *)
(* raises ends with the loader's error and leaves the Symbols as they      *)
(* were, the node at P holding none.  The next call, if it is a resolve(P) *)
(* again, runs the loader again when it reaches the node and, when the     *)
(* loader does not raise, returns the loader's value.                      *)
(***************************************************************************)
FailedBefore(c) ==
    /\ tlast.op = "resolve"
    /\ tlast.out = "LazyLoadFailed"
    /\ c.op = "resolve"
    /\ c.path = tlast.path

C20_Step ==
    \A t \in Threads :
        LET c == tcall[t]
            ended == c.pc # "idle" /\ tcall'[t].pc = "idle"
        IN  /\ (c.op = "resolve" /\ ended /\ c.loaded /\ tlast'.out # "ok")
               => /\ tlast'.out = "LazyLoadFailed"
                  /\ symbol' = symbol
                  /\ split_path(c.path) \notin DOMAIN symbol'
            /\ (FailedBefore(c) /\ c.pc = "res_walk" /\ c.i = Len(c.parts)
                    /\ tcall'[t] # c)
               => tcall'[t].pc = "res_store"
            /\ (FailedBefore(c) /\ ended /\ tlast'.out = "ok")
               => tlast'.ret = LoadedValue

C20_FailedLoadNotCached == [][C20_Step]_vars

C20_Witness ==
    \E t \in Threads :
        /\ FailedBefore(tcall[t])
        /\ tcall[t].pc = "res_return"
        /\ tcall[t].loaded
        /\ split_path(tcall[t].path) \in DOMAIN symbol
        /\ symbol[split_path(tcall[t].path)].value = LoadedValue

(***************************************************************************)
(* C21.  The producer of a lazy path runs once.  The first resolve(P)      *)
(* after a loader was recorded for P, the node at P holding no Symbol,     *)
(* runs the loader and, the loader not raising, returns its value.  A      *)
(* resolve(P) that follows a resolve(P) which returned does not run the    *)
(* loader and returns what the one before it returned.                     *)
(***************************************************************************)
ReturnedBefore(c) ==
    /\ tlast.op = "resolve"
    /\ tlast.out = "ok"
    /\ c.op = "resolve"
    /\ c.path = tlast.path
    /\ has_lazy(lazy, c.path)

RecordedBefore(c) ==
    /\ tlast.op = "register_lazy"
    /\ c.op = "resolve"
    /\ c.path = tlast.path
    /\ split_path(c.path) \notin DOMAIN symbol

C21_Step ==
    \A t \in Threads :
        LET c == tcall[t]
            ended == c.pc # "idle" /\ tcall'[t].pc = "idle"
            checks == c.pc = "res_walk" /\ c.i = Len(c.parts) /\ tcall'[t] # c
        IN  /\ (RecordedBefore(c) /\ checks) => tcall'[t].pc = "res_store"
            /\ (RecordedBefore(c) /\ ended /\ tlast'.out = "ok")
               => tlast'.ret = LoadedValue
            /\ (ReturnedBefore(c) /\ checks) => tcall'[t].pc = "res_return"
            /\ (ReturnedBefore(c) /\ ended)
               => /\ ~c.loaded
                  /\ tlast'.out = "ok"
                  /\ tlast'.ret = tlast.ret

MaxReTime == 2
MaxReVersions == 1

ReStep(t) ==
    \/ RollbackAcquire(t)
    \/ RollbackScan(t)
    \/ RollbackSetCheck(t)
    \/ RollbackSetAcquire(t)
    \/ RollbackSetBody(t)
    \/ GetAcquire(t)
    \/ GetExpiry(t)
    \/ GetDeleteCheck(t)
    \/ GetDeleteAcquire(t)
    \/ GetDeleteBody(t)
    \/ ReRelease(t)

NextRe ==
    \/ Tick(MaxReTime)
    \/ SetPermission({sAB}, {"admin"}, Tokens)
    \/ Set({sAB}, {"v1"}, {"admin"}, {1}, {5}, MaxReTime, MaxReVersions)
    \/ RollbackBegin({"t1"}, {sAB}, MaxReTime)
    \/ GetBegin({"t2"}, {sAB}, {"admin"})
    \/ \E t \in Threads : RollbackAcquire(t)
    \/ \E t \in Threads : RollbackScan(t)
    \/ \E t \in Threads : RollbackSetCheck(t)
    \/ \E t \in Threads : RollbackSetAcquire(t)
    \/ \E t \in Threads : RollbackSetBody(t)
    \/ \E t \in Threads : GetAcquire(t)
    \/ \E t \in Threads : GetExpiry(t)
    \/ \E t \in Threads : GetDeleteCheck(t)
    \/ \E t \in Threads : GetDeleteAcquire(t)
    \/ \E t \in Threads : GetDeleteBody(t)
    \/ \E t \in Threads : ReRelease(t)

SpecRe == Init /\ [][NextRe]_vars /\ \A t \in Threads : WF_vars(ReStep(t))

(***************************************************************************)
(* C22.  The calls that re-enter the instance while holding its lock end:  *)
(* a thread that is in rollback or in get is eventually out of it again,   *)
(* and whenever no thread is in a call the lock is free.                   *)
(***************************************************************************)
C22_ReentrantCallsEnd ==
    /\ \A t \in Threads : (rcall[t].pc # "idle") ~> (rcall[t].pc = "idle")
    /\ []((\A t \in Threads : rcall[t].pc = "idle" /\ ccall[t].pc = "idle")
          => (lock = NoThread /\ lock_depth = 0))

C22_Witness ==
    \E t, u \in Threads :
        /\ rdone[t].op = "rollback" /\ rdone[t].inner /\ rdone[t].out = "ok"
        /\ rdone[u].op = "get" /\ rdone[u].inner /\ rdone[u].out = "ok"
        /\ lock = NoThread

(***************************************************************************)
(* SpecMissing: paths that are not there.  One caller registers values at  *)
(* a.x and at k, may record lazy loaders for a and a.b, and resolves and   *)
(* unregisters a, a.b and k: a.b's parent a is missing until a.x is        *)
(* registered, and a.b itself is never created.                            *)
(***************************************************************************)
NextMissing ==
    \/ RegisterBegin({"t1"}, {sAX, sK}, {RawArg("v1")}, TRUE)
    \/ RegisterWalk
    \/ RegisterCheck
    \/ RegisterWrite
    \/ RegisterLazy({sA, sAB})
    \/ ResolveBegin({"t1"}, {sA, sAB, sK}, TRUE)
    \/ ResolveWalk
    \/ ResolveCheck
    \/ ResolveStore
    \/ ResolveReturn
    \/ UnregisterBegin({"t1"}, {sA, sAB, sK}, TRUE)
    \/ UnregisterWalk
    \/ UnregisterClear

SpecMissing == Init /\ [][NextMissing]_vars

\* The segments of the call's path, up to the n-th, that name no node.
MissingUpTo(c, n) == \E i \in 1..n : SubSeq(split_path(c.path), 1, i) \notin children

(***************************************************************************)
(* C23 as stated.  A resolve(P) or unregister(P) for which an intermediate *)
(* node or the terminal node of P does not exist ends with the             *)
(* path-not-found error (KeyError) and leaves nodes and Symbols as they    *)
(* were.                                                                   *)
(***************************************************************************)
C23_MissingStep ==
    \A t \in Threads :
        LET c == tcall[t]
            ended == c.pc # "idle" /\ tcall'[t].pc = "idle"
        IN  (c.op \in {"resolve", "unregister"} /\ ended
                /\ MissingUpTo(c, Len(split_path(c.path))))
            => /\ tlast'.out = "KeyError"
               /\ children' = children
               /\ symbol' = symbol

C23_MissingRaises == [][C23_MissingStep]_vars

(***************************************************************************)
(* C23, amended.  A resolve(P) for which any node of P is missing, and an  *)
(* unregister(P) for which an intermediate node of P is missing, end with  *)
(* the path-not-found error (KeyError); an unregister(P) for which only    *)
(* the terminal node is missing returns without raising.  In all three     *)
(* cases nodes and Symbols are left as they were, and no step of a resolve *)
(* or an unregister adds or removes a node.                                *)
(***************************************************************************)
C23_AmendedStep ==
    \A t \in Threads :
        LET c == tcall[t]
            n == Len(split_path(c.path))
            ended == c.pc # "idle" /\ tcall'[t].pc = "idle"
            raises == \/ c.op = "resolve" /\ MissingUpTo(c, n)
                      \/ c.op = "unregister" /\ MissingUpTo(c, n - 1)
        IN  /\ (c.op \in {"resolve", "unregister"} /\ ended /\ MissingUpTo(c, n))
               => /\ tlast'.out = IF raises THEN "KeyError" ELSE "ok"
                  /\ children' = children
                  /\ symbol' = symbol
            /\ (c.op \in {"resolve", "unregister"} /\ tcall'[t] # c)
               => children' = children

C23_MissingRaisesButTerminal == [][C23_AmendedStep]_vars

\* unregister(a.b) ended with KeyError, a missing, while k holds its Symbol
C23_Witness ==
    /\ tlast.op = "unregister"
    /\ tlast.path = sAB
    /\ tlast.out = "KeyError"
    /\ split_path(sA) \notin children
    /\ sK \in DOMAIN registered
    /\ split_path(sK) \in DOMAIN symbol
    /\ \A t \in Threads : tcall[t].pc = "idle"

(***************************************************************************)
(* What a caller holds after get and get_metadata.  get returns ref (line  *)
(* 206), for an interior path the very mapping that is part of             *)
(* _namespaces, and get_metadata returns the dict stored in _metadata      *)
(* (line 219); neither is copied.  A caller that assigns into the object   *)
(* it was handed assigns into the table.                                   *)
(***************************************************************************)
\* ret = manager.get(P, role=...); ret[key] = value
MutateGot(keyMenu, valMenu) ==
    \E key \in keyMenu, value \in valMenu :
        LET P == resolve_alias(Tables, last.ns)
            R2 == [Tables EXCEPT !.namespaces = Assign(@, Append(Split(P), key), value)]
        IN  /\ last.op = "get"
            /\ last.out = "ok"
            /\ last.ret = DICT
            /\ Install(Result(R2, "ok", NONE),
                       [Admin("mutate_got") EXCEPT !.ns = last.ns],
                       sEmpty, NONE, FALSE)
            /\ UNCHANGED clock

\* meta = manager.get_metadata(P); meta["description"] = text
MutateMetadata(descMenu) ==
    \E text \in descMenu :
        LET P == resolve_alias(Tables, last.ns)
            R2 == [Tables EXCEPT !.metadata[P].description = text]
        IN  /\ last.op = "get_metadata"
            /\ P \in DOMAIN metadata
            /\ Install(Result(R2, "ok", NONE),
                       [Admin("mutate_metadata") EXCEPT !.ns = last.ns],
                       sEmpty, NONE, FALSE)
            /\ UNCHANGED clock

(***************************************************************************)
(* SpecRef: returned objects.  Role svc, granted both tokens on a and a.b, *)
(* sets a.b, gets a and a.b and reads a.b's metadata; the caller may       *)
(* assign into the mapping or the metadata dict it was handed.             *)
(***************************************************************************)
MaxRefVersions == 2

NextRef ==
    \/ SetPermission({sA, sAB}, {"svc"}, Tokens)
    \/ Set({sAB}, {"v1"}, {"svc"}, {NoTtl}, {5}, MaxTime, MaxRefVersions)
    \/ Get({sA, sAB}, {"svc"})
    \/ GetMetadata({sAB})
    \/ MutateGot({<<"b">>, <<"x">>}, {"v2"})
    \/ MutateMetadata({<<"m">>})

SpecRef == Init /\ [][NextRef]_vars

(***************************************************************************)
(* C24.  Assigning into an object that get or get_metadata returned        *)
(* changes nothing a later call returns: the values get's walk finds for   *)
(* a, a.b and a.x, the keys list_keys finds under a and the metadata of    *)
(* these paths are what they were before the assignment.                   *)
(***************************************************************************)
C24_Step ==
    last'.op \in {"mutate_got", "mutate_metadata"}
    => /\ \A Q \in {sA, sAB, sAX} :
             /\ get_walk(Tables', Q, "default").ret = get_walk(Tables, Q, "default").ret
             /\ SameAt(metadata', metadata, Q)
       /\ list_keys(Tables', sA).ret = list_keys(Tables, sA).ret

C24_ReturnedCopies == [][C24_Step]_callVars

(***************************************************************************)
(* C25.  A get of an entry whose expiration has passed, by any role that   *)
(* passes the read check, whether or not it holds "write", does not end    *)
(* in a permission error: it returns the caller's default and the entry's  *)
(* key and expiration are gone.                                            *)
(***************************************************************************)
C25_ExpiredGetStep ==
    LET c == last'
        P == GetOr(aliases, c.ns, c.ns)
    IN  (c.op = "get" /\ HasToken(P, c.role, "read")
         /\ P \in DOMAIN expirations /\ clock > expirations[P])
        => /\ c.out # "PermissionError"
           /\ c.ret = "default"
           /\ Split(P) \notin DOMAIN namespaces'
           /\ P \notin DOMAIN expirations'

C25_ReclaimByReader == [][C25_ExpiredGetStep]_callVars

(***************************************************************************)
(* SpecLastWrite: the expiration and the last write.  Role admin, granted  *)
(* both tokens on a.b, writes v1 with a ttl of one second and v2 with no   *)
(* ttl, and gets a.b, as the clock advances between the calls.             *)
(***************************************************************************)
MaxLastWriteVersions == 2

NextLastWrite ==
    \/ Tick(MaxTtlTime)
    \/ SetPermission({sAB}, {"admin"}, Tokens)
    \/ Set({sAB}, {"v1"}, {"admin"}, {1}, {5}, MaxTtlTime, MaxLastWriteVersions)
    \/ Set({sAB}, {"v2"}, {"admin"}, {NoTtl}, {5}, MaxTtlTime, MaxLastWriteVersions)
    \/ Get({sAB}, {"admin"})

SpecLastWrite == Init /\ [][NextLastWrite]_vars

(***************************************************************************)
(* C26.  The expiration follows the last write.  A set with ttl 1 (here    *)
(* the writes of v1) leaves the expiration at the time of the write plus   *)
(* one; and a get by a reader of an entry whose last write gave no ttl     *)
(* (here the writes of v2) returns the value of that write, whatever       *)
(* deadline an earlier write had set.                                      *)
(***************************************************************************)
C26_Step ==
    LET c == last'
        P == GetOr(aliases, c.ns, c.ns)
    IN  /\ (c.op = "set" /\ c.out = "ok" /\ c.val = "v1")
           => /\ P \in DOMAIN expirations'
              /\ expirations'[P] = clock' + 1
        /\ (c.op = "get" /\ HasToken(P, c.role, "read") /\ P \in DOMAIN versions
                /\ versions[P][Len(versions[P])][2] = "v2")
           => /\ c.out = "ok"
              /\ c.ret = "v2"

C26_ExpirationOfLastWrite == [][C26_Step]_callVars

(***************************************************************************)
(* SpecGrant: granting through an alias.  The alias a -> b may be          *)
(* recorded and removed; role svc is granted tokens on a and on b and sets *)
(* and gets through both names.                                            *)
(***************************************************************************)
\* set_permission, the call recorded with its arguments
SetPermissionOn(nsMenu, roleMenu, tokenMenu) ==
    \E namespace \in nsMenu, role \in roleMenu, permission \in tokenMenu :
        \E res \in {set_permission(Tables, namespace, role, permission)} :
            /\ Install(res, Call("set_permission", namespace, role, permission, res),
                       sEmpty, NONE, FALSE)
            /\ UNCHANGED clock

MaxGrantVersions == 1

NextGrant ==
    \/ SetAlias({<<sA, sB>>})
    \/ DeleteAlias({sA})
    \/ SetPermissionOn({sA, sB}, {"svc"}, Tokens)
    \/ Set({sA, sB}, {"v1"}, {"svc"}, {NoTtl}, {5}, MaxTime, MaxGrantVersions)
    \/ Get({sA, sB}, {"svc"})

SpecGrant == Init /\ [][NextGrant]_vars

(***************************************************************************)
(* C27.  set_permission grants on the canonical path: once                 *)
(* set_permission(A, role, token) has returned, check_permission is true   *)
(* for that role and token both on A and on the path A is an alias of.     *)
(***************************************************************************)
C27_GrantStep ==
    LET c == last'
    IN  (c.op = "set_permission" /\ c.out = "ok")
        => /\ check_permission(Tables', c.ns, c.role, c.val)
           /\ check_permission(Tables', GetOr(aliases, c.ns, c.ns), c.role, c.val)

C27_GrantThroughAlias == [][C27_GrantStep]_callVars

(***************************************************************************)
(* C28.  A refused registration has no effect: while register(P, V2) runs  *)
(* over a path P that held a Symbol when the call began, under the raising *)
(* policy, no step of the call changes the set of nodes or any Symbol, P   *)
(* resolves to what it resolved to, the call never reaches the assignment  *)
(* and it ends with ConflictDetected.                                      *)
(***************************************************************************)
C28_Step ==
    \A t \in Threads :
        LET c == tcall[t]
        IN  (c.op = "register" /\ c.pc # "idle" /\ c.occupied /\ policy = "raise")
            => /\ children' = children
               /\ symbol' = symbol
               /\ ResolveOutcome(children', symbol', lazy', c.path)
                      = ResolveOutcome(children, symbol, lazy, c.path)
               /\ tcall'[t].pc # "reg_write"
               /\ tcall'[t].pc = "idle" => tlast'.out = "ConflictDetected"

C28_RefusedRegisterNoEffect == [][C28_Step]_vars

\* register(a, .) was refused while a held v1 and had the descendant a.b
C28_Witness ==
    /\ tlast.op = "register"
    /\ tlast.out = "ConflictDetected"
    /\ tlast.path = sA
    /\ tlast.arg.value = "v2"
    /\ resolve_return(symbol, split_path(sA)) = "v1"
    /\ split_path(sAB) \in DOMAIN symbol

(***************************************************************************)
(* SpecLeaf: one caller at a time on a Namespace whose path a is both a    *)
(* leaf and the parent of a.b.  Both paths are registered, resolved and    *)
(* unregistered; a lazy loader may be recorded for a and the conflict      *)
(* policy switched.                                                        *)
(***************************************************************************)
LeafPaths == {sA, sAB}

NextLeaf ==
    \/ RegisterBegin({"t1"}, LeafPaths, {RawArg("v1"), SymbolArg("v2", "s")}, TRUE)
    \/ RegisterWalk
    \/ RegisterCheck
    \/ RegisterWrite
    \/ ResolveBegin({"t1"}, LeafPaths, TRUE)
    \/ ResolveWalk
    \/ ResolveCheck
    \/ ResolveStore
    \/ ResolveReturn
    \/ UnregisterBegin({"t1"}, LeafPaths, TRUE)
    \/ UnregisterWalk
    \/ UnregisterClear
    \/ RegisterLazy({sA})
    \/ SetPolicy

SpecLeaf == Init /\ [][NextLeaf]_vars

\* Some path strictly below P holds a Symbol.
HasRegisteredDescendant(symbols, path) ==
    \E n \in DOMAIN symbols : IsProperPrefix(split_path(path), n)

\* No step of a register or an unregister on P changes what a path below P
\* resolves to.
C29_DescendantsKept ==
    \A t \in Threads :
        LET c == tcall[t]
        IN  (c.op \in {"register", "unregister"} /\ c.pc # "idle")
            => \A q \in LeafPaths :
                  IsProperPrefix(split_path(c.path), split_path(q))
                      => ResolveOutcome(children', symbol', lazy', q)
                             = ResolveOutcome(children, symbol, lazy, q)

\* A register on a path whose node exists adds no node, and one on a path
\* that held no Symbol when it began ends without the handler being called.
C29_NodeReused ==
    \A t \in Threads :
        LET c == tcall[t]
        IN  (c.op = "register" /\ c.pc # "idle")
            => /\ split_path(c.path) \in children => children' = children
               /\ (~c.occupied /\ tcall'[t].pc = "idle")
                      => (tlast'.out = "ok" /\ tlast'.handled = 0)

\* What resolve(P) gives once unregister(P) has completed on a P that has
\* registered descendants.
C29_AfterUnregister(expected(_)) ==
    \A t \in Threads :
        LET c == tcall[t]
        IN  (/\ c.op = "unregister"
             /\ tcall'[t].pc = "idle"
             /\ tlast'.out = "ok"
             /\ HasRegisteredDescendant(symbol, c.path))
            => /\ split_path(c.path) \in children'
               /\ split_path(c.path) \notin DOMAIN symbol'
               /\ ResolveOutcome(children', symbol', lazy', c.path)
                      = <<"ok", expected(c.path)>>

C29_None(path) == NONE
C29_NoneOrLoaded(path) ==
    IF has_lazy(lazy', path) THEN load_lazy(lazy', path).value ELSE NONE

RECURSIVE SegmentAt(_, _, _, _)
SegmentAt(key, i, pattern, j) ==
    IF j > Len(pattern) THEN i > Len(key)
    ELSE IF pattern[j] = "*"
         THEN SegmentAt(key, i, pattern, j + 1)
              \/ (i <= Len(key) /\ key[i] # "." /\ SegmentAt(key, i + 1, pattern, j))
    ELSE IF pattern[j] = "?"
         THEN i <= Len(key) /\ key[i] # "." /\ SegmentAt(key, i + 1, pattern, j + 1)
    ELSE i <= Len(key) /\ key[i] = pattern[j] /\ SegmentAt(key, i + 1, pattern, j + 1)

(***************************************************************************)
(* C30.  In a wildcard query "*" never matches across a ".": every path    *)
(* that search(pattern) returns matches the pattern with "*" standing for  *)
(* a run of segment characters and "?" for one; search("a.*") returns a.x  *)
(* but not a.b.c.                                                          *)
(***************************************************************************)
C30_StarWithinSegment ==
    last.op = "search"
        => \A kv \in last.ret : SegmentAt(kv[1], 1, last.ns, 1)

(***************************************************************************)
(* SpecObs: one caller attaches observers 1..3 with priorities 0..2 to a   *)
(* Subject, detaches them and notifies.                                    *)
(***************************************************************************)
NextObs ==
    \/ Attach(ObserverIds, Priorities, MaxHeapLen)
    \/ Detach(ObserverIds)
    \/ Notify(Messages)

SpecObs == Init /\ [][NextObs]_vars

(***************************************************************************)
(* C31.  notify calls update on the interested attached observers in       *)
(* non-increasing order of priority, and on no observer that was detached  *)
(* before the notify.                                                      *)
(***************************************************************************)
C31_NotifyByPriority ==
    olast.op = "notify"
        => /\ \A i, j \in 1..Len(olast.updates) :
                 i < j => (0 - olast.updates[i][1]) >= (0 - olast.updates[j][1])
           /\ \A i \in 1..Len(olast.updates) :
                 olast.updates[i][2] \in active_observers

\* Path Q holds a value, not a mapping, in the nested dict d.
HoldsValue(d, Q) == Split(Q) \in DOMAIN d /\ d[Split(Q)] # DICT

(***************************************************************************)
(* C32.  Frame of set: a set(P, V) that returned leaves every other path   *)
(* that held a value, a dotted prefix of P and a path below P included,    *)
(* with the same stored value; and a set(P, V) by a role that holds        *)
(* "write" on P does not fail whatever other paths hold values.            *)
(***************************************************************************)
C32_SetStep ==
    LET c == last'
        P == GetOr(aliases, c.ns, c.ns)
    IN  /\ (c.op = "set" /\ c.out = "ok")
           => \A Q \in {sA, sAB} \ {P} :
                 HoldsValue(namespaces, Q)
                     => /\ HoldsValue(namespaces', Q)
                        /\ namespaces'[Split(Q)] = namespaces[Split(Q)]
        /\ (c.op = "set" /\ HasToken(P, c.role, "write")) => c.out = "ok"

C32_SetFrame == [][C32_SetStep]_callVars

(***************************************************************************)
(* C33.  Consistency of the tables: a path has a metadata entry, a         *)
(* non-empty version history or an expiration only while it holds a value  *)
(* in the nested mapping, and that value is the latest entry of its        *)
(* history; nothing is left behind for a path whose value was removed by a *)
(* delete or a set on an ancestor path.                                    *)
(***************************************************************************)
C33_NoOrphans ==
    \A Q \in {sA, sAB} :
        (\/ Q \in DOMAIN metadata
         \/ (Q \in DOMAIN versions /\ Len(versions[Q]) > 0)
         \/ Q \in DOMAIN expirations)
        => /\ HoldsValue(namespaces, Q)
           /\ (Q \in DOMAIN versions /\ Len(versions[Q]) > 0)
                 => namespaces[Split(Q)] = versions[Q][Len(versions[Q])][2]

(***************************************************************************)
(* SpecSvc: thread t1 registers the singleton db, with or without the      *)
(* dependency db and the alias al; thread t2 registers a factory for log,  *)
(* unregisters and gets.  Every thread that can take a step of its call    *)
(* infinitely often eventually takes it: a thread waiting for a lock that  *)
(* keeps becoming free does get it.                                        *)
(***************************************************************************)
SvcStep(t) ==
    \/ SvcAcquire(t)
    \/ SvcRegisterBody(t)
    \/ SvcRegisterDep(t)
    \/ SvcRegisterFactoryBody(t)
    \/ SvcUnregisterBody(t)
    \/ SvcGetBody(t)

NextSvc ==
    \/ SvcRegisterBegin({"t1"}, {"db"}, {TRUE}, {<< >>, <<"db">>},
                        {<< >>, <<"al">>})
    \/ SvcRegisterFactoryBegin({"t2"}, {"log"}, BOOLEAN)
    \/ SvcUnregisterBegin({"t2"}, {"db", "al"})
    \/ SvcGetBegin({"t2"}, {"db", "log", "al"})
    \/ \E t \in Threads : SvcAcquire(t)
    \/ \E t \in Threads : SvcRegisterBody(t)
    \/ \E t \in Threads : SvcRegisterDep(t)
    \/ \E t \in Threads : SvcRegisterFactoryBody(t)
    \/ \E t \in Threads : SvcUnregisterBody(t)
    \/ \E t \in Threads : SvcGetBody(t)

SpecSvc == Init /\ [][NextSvc]_vars /\ \A t \in Threads : SF_vars(SvcStep(t))

(***************************************************************************)
(* C34.  Every register, register_factory, unregister and get call that    *)
(* has begun ends, returning or raising, and once no call is in progress   *)
(* the registry's lock is free; this includes register with a non-empty    *)
(* list of dependencies.                                                   *)
(***************************************************************************)
C34_CallsEnd ==
    /\ \A t \in Threads : (scall[t].pc # "idle") ~> (scall[t].pc = "idle")
    /\ []((\A t \in Threads : scall[t].pc = "idle") => svc_lock = NoThread)

====
